---- MODULE Spec2Model ----
(***************************************************************************)
(* Model of tools/parse_wos_coredump.py: the coredump decoder, the sorted  *)
(* symbol and section tables, the address resolver and the virtual-memory  *)
(* reconstructor.                                                          *)
(*                                                                         *)
(* Python's Optional[T] is modelled as None / Some(v).  Python ints are    *)
(* unbounded; the bounded inputs below stay far from TLC's integer range.  *)
(***************************************************************************)
EXTENDS Integers, Sequences, FiniteSets, TLC

VARIABLES
    \* ---- read_va_bytes (Virtual Memory Reconstructor) ----
    dump,        \* the CoreDump the reader works on: segmentCount, segments, raw
    va_start,    \* argument of the running read_va_bytes call
    length,      \* argument of the running read_va_bytes call
    va,          \* local `va`
    remaining,   \* local `remaining`
    result,      \* local `result` (the bytearray, as a sequence of bytes)
    rd_ret,      \* the value read_va_bytes returned (None / Some(bytes))
    rd_pc,       \* "idle", "loop" (at the while test), "done" (returned)
    rd_iters     \* number of loop bodies the running call has executed

VARIABLES
    \* ---- SymbolTable ----
    syms,          \* SymbolTable._syms: sequence of <<addr, name, size>>
    sym_finished,  \* finish() has run
    sym_lk,        \* the last lookup call: [addr, idx, ret]
    \* ---- SectionMap ----
    sections,      \* SectionMap._sections: sequence of <<vaddr, size, name>>
    sec_finished,  \* finish() has run
    sec_lk         \* the last lookup call: [addr, idx, ret]

VARIABLES
    \* ---- resolve_addr ----
    rs_tables,   \* argument `tables`: list of finished SymbolTables
    rs_maps,     \* argument `section_maps`: list of finished SectionMaps
    rs_addr,     \* argument `addr`
    rs_pc,       \* "idle", "syms" (first loop), "secs" (second loop), "done"
    rs_i,        \* position of the running loop (1-based)
    rs_ret,      \* the value resolve_addr returned
    rs_log       \* the lookups made so far: <<kind, index, result>>

VARIABLES
    \* ---- parse_coredump ----
    pd_in,        \* how the input file was made: header seed, damage, cut
    data,         \* argument `data`: the bytes of the file
    pd_pc,        \* position in parse_coredump
    pd_off,       \* local `off`
    pd_fields,    \* the header fields decoded so far
    pd_segments,  \* local `segments`
    pd_ret,       \* the CoreDump returned
    pd_err        \* the exception raised

VARIABLES
    \* ---- _parse_elf_symtab and _parse_elf_sections ----
    elf_in,       \* how the image was made
    elf,          \* argument `elf`: the bytes of the image
    st_pc,        \* position in _parse_elf_symtab
    shdrs,        \* local `shdrs`
    symtab_shdr,  \* local `symtab_shdr`
    strtab,       \* local `strtab`
    sym_off,      \* local `sym_off`
    table,        \* local `table` (its _syms)
    st_seen,      \* the symbol entries read so far
    st_ret,       \* how _parse_elf_symtab ended: returned value or exception
    es_pc,        \* position in _parse_elf_sections
    shstrtab,     \* local `shstrtab`
    es_i,         \* loop variable `i`
    smap,         \* local `smap` (its _sections)
    es_seen,      \* the section headers visited so far
    es_ret        \* how _parse_elf_sections ended

VARIABLES
    \* ---- main, cmd_dump_segment, cmd_dump_range ----
    mn_req,            \* the command line: --dump-range and --dump-segment
    mn_pc,             \* position in main and in the commands
    dr_va_start,       \* argument va_start of cmd_dump_range
    dr_va_end,         \* argument va_end of cmd_dump_range
    va_start_aligned,  \* local `va_start_aligned`
    dr_length,         \* local `length` of cmd_dump_range
    seg_index,         \* argument seg_index of cmd_dump_segment
    out,               \* what was printed so far
    mn_ret             \* how the command (and main) ended

VARIABLES
    \* ---- annotate_qword ----
    aq_in,   \* the arguments: va, value, the RIPs of the dump, sym_tables
    notes,   \* local `notes`
    aq_pc,   \* "markers", "value", "join", "done"
    aq_ret   \* the string returned

VARIABLES
    \* ---- cluster_setup.py ----
    cl_config,    \* the cluster config (cluster.json)
    host_links,   \* names of the network links that exist on the host
    host_files,   \* paths of the ivshmem backing files that exist
    overlay_dir,  \* TRUE when cluster-overlays/ exists
    ssh_keys,     \* node ids with a host key under cluster-data/ssh-keys
    cl_pc,        \* "setup", "teardown", "setup2", "done"
    cl_zone,      \* 1-based position of the running zone loop
    created,      \* what the first setup created
    recreated     \* what the second setup created

rdVars == <<dump, va_start, length, va, remaining, result, rd_ret, rd_pc, rd_iters>>
symVars == <<syms, sym_finished, sym_lk>>
secVars == <<sections, sec_finished, sec_lk>>

rsVars == <<rs_tables, rs_maps, rs_addr, rs_pc, rs_i, rs_ret, rs_log>>

pdVars == <<pd_in, data, pd_pc, pd_off, pd_fields, pd_segments, pd_ret, pd_err>>

stVars == <<st_pc, shdrs, symtab_shdr, strtab, sym_off, table, st_seen, st_ret>>
esVars == <<es_pc, shstrtab, es_i, smap, es_seen, es_ret>>
elfVars == <<elf_in, elf, stVars, esVars>>

mnVars == <<mn_req, mn_pc, dr_va_start, dr_va_end, va_start_aligned, dr_length, seg_index,
           out, mn_ret>>

aqVars == <<aq_in, notes, aq_pc, aq_ret>>

clVars == <<cl_config, host_links, host_files, overlay_dir, ssh_keys, cl_pc, cl_zone,
            created, recreated>>

vars == <<rdVars, symVars, secVars, rsVars, pdVars, elfVars, mnVars, aqVars, clVars>>

\* What the operations of one component leave alone.
rdOthers == <<symVars, secVars, rsVars, pdVars, elfVars, mnVars, aqVars, clVars>>
symOthers == <<rdVars, secVars, rsVars, pdVars, elfVars, mnVars, aqVars, clVars>>
secOthers == <<rdVars, symVars, rsVars, pdVars, elfVars, mnVars, aqVars, clVars>>
rsOthers == <<rdVars, symVars, secVars, pdVars, elfVars, mnVars, aqVars, clVars>>
pdOthers == <<rdVars, symVars, secVars, rsVars, elfVars, mnVars, aqVars, clVars>>
elfOthers == <<rdVars, symVars, secVars, rsVars, pdVars, mnVars, aqVars, clVars>>
mnOthers == <<rdVars, symVars, secVars, rsVars, pdVars, elfVars, aqVars, clVars>>
aqOthers == <<rdVars, symVars, secVars, rsVars, pdVars, elfVars, mnVars, clVars>>
clOthers == <<rdVars, symVars, secVars, rsVars, pdVars, elfVars, mnVars, aqVars>>

None == [ok |-> FALSE]
Some(v) == [ok |-> TRUE, v |-> v]

Min(a, b) == IF a <= b THEN a ELSE b

(***************************************************************************)
(* Program constants.                                                      *)
(***************************************************************************)
MAX_SEGMENTS == 5
SEGMENT_SIZE == 32

(***************************************************************************)
(* Python slicing s[a:b] of a bytes object for 0 <= a: both ends are       *)
(* clamped to len(s), so a slice that reaches past the end is shorter than *)
(* b - a and one that starts past the end is empty.  Indices are 0-based.  *)
(***************************************************************************)
PySlice(s, a, b) == SubSeq(s, Min(a, Len(s)) + 1, Min(b, Len(s)))

(***************************************************************************)
(* CoreDumpSegment and its vaddr_end property.                             *)
(***************************************************************************)
CoreDumpSegment(vaddr, size, fileOffset, type, present) ==
    [vaddr |-> vaddr, size |-> size, fileOffset |-> fileOffset,
     type |-> type, present |-> present]

vaddr_end(seg) == seg.vaddr + seg.size

(***************************************************************************)
(* dump.segments[:int(dump.segmentCount)]: the indices (1-based) of the    *)
(* slice; a segmentCount above the number of decoded entries is clamped.   *)
(***************************************************************************)
ValidIndices(d) == 1..Min(d.segmentCount, Len(d.segments))

(***************************************************************************)
(* find_segment_for_va: the first segment, in table order, among the first *)
(* segmentCount that is present and contains va; 0 stands for None.        *)
(***************************************************************************)
SegmentMatches_IgnoresPresent(seg, a) == seg.vaddr <= a /\ a < vaddr_end(seg)

SegmentMatches(seg, a) == seg.present # 0 /\ seg.vaddr <= a /\ a < vaddr_end(seg)

find_segment_for_va(d, a) ==
    LET hits == {i \in ValidIndices(d) : SegmentMatches(d.segments[i], a)}
    IN IF hits = {} THEN 0 ELSE CHOOSE i \in hits : \A j \in hits : i <= j

(***************************************************************************)
(* Strings.  Python orders str by code point; AllNames lists every name    *)
(* the model uses in that order ('.' < '_' < 'i' < 'k' < 'm').             *)
(***************************************************************************)
AllNames == <<".data", ".text", "_Z3isrv", "isr()", "kmain", "memcpy">>

StrRank(n) == CHOOSE i \in 1..Len(AllNames) : AllNames[i] = n

StrLt(a, b) == StrRank(a) < StrRank(b)

\* f"{n:x}": lowercase hexadecimal without padding.
HexDigits == <<"0", "1", "2", "3", "4", "5", "6", "7",
               "8", "9", "a", "b", "c", "d", "e", "f">>

RECURSIVE Hex(_)
Hex(n) == IF n < 16 THEN HexDigits[n + 1]
          ELSE Hex(n \div 16) \o HexDigits[(n % 16) + 1]

\* The tail of both lookups: the bare name at offset 0, else name+0xOFFSET.
FormatName(name, offset) ==
    IF offset = 0 THEN name ELSE name \o "+0x" \o Hex(offset)

(***************************************************************************)
(* bisect.bisect_right(a, (addr,)) on a list of 3-tuples whose first       *)
(* element is an address.  Python compares tuples lexicographically and a  *)
(* proper prefix is smaller than the longer tuple, so the 1-tuple (addr,)  *)
(* is smaller than every entry whose first element is addr or more.        *)
(***************************************************************************)
KeyLt(addr, e) == addr < e[1] \/ addr = e[1]

RECURSIVE BisectLoop(_, _, _, _)
BisectLoop(a, addr, lo, hi) ==
    IF lo < hi
    THEN LET mid == (lo + hi) \div 2
         IN IF KeyLt(addr, a[mid + 1])
            THEN BisectLoop(a, addr, lo, mid)
            ELSE BisectLoop(a, addr, mid + 1, hi)
    ELSE lo

bisect_right(a, addr) == BisectLoop(a, addr, 0, Len(a))

(***************************************************************************)
(* _demangle_batch: the llvm-cxxfilt collaborator either answers with one  *)
(* line per name ("ok"), or is missing, times out, exits non-zero or       *)
(* answers with another number of lines; all but "ok" keep the names.      *)
(***************************************************************************)
DemangleOutcomes == {"ok", "missing", "timeout", "failed", "mismatch"}

\* What llvm-cxxfilt prints for a name.
CxxFilt(n) == IF n = "_Z3isrv" THEN "isr()" ELSE n

demangle_batch_IgnoresOutcome(names, outcome) ==
    [i \in 1..Len(names) |-> CxxFilt(names[i])]

demangle_batch(names, outcome) ==
    IF names = <<>> THEN names
    ELSE IF outcome = "ok" THEN [i \in 1..Len(names) |-> CxxFilt(names[i])]
    ELSE names

(***************************************************************************)
(* SymbolTable: entries are (addr, name, size).                            *)
(***************************************************************************)
SMALL_OFFSET_BOUND == 4096
LARGE_OFFSET_BOUND == 65536

\* Python's order on (int, str, int) tuples, used by list.sort().
SymLt(a, b) ==
    \/ a[1] < b[1]
    \/ a[1] = b[1] /\ StrLt(a[2], b[2])
    \/ a[1] = b[1] /\ a[2] = b[2] /\ a[3] < b[3]

\* finish() without the sort.
SymbolTable_finish_NoSort(tbl, outcome) ==
    LET demangled == demangle_batch([i \in 1..Len(tbl) |-> tbl[i][2]], outcome)
    IN [i \in 1..Len(tbl) |-> <<tbl[i][1], demangled[i], tbl[i][3]>>]

SymbolTable_finish(tbl, outcome) ==
    LET demangled == demangle_batch([i \in 1..Len(tbl) |-> tbl[i][2]], outcome)
        renamed == [i \in 1..Len(tbl) |-> <<tbl[i][1], demangled[i], tbl[i][3]>>]
    IN SortSeq(renamed, SymLt)

\* The size test of lookup: TRUE when the match is rejected.
SizeRuleRejects_SwappedBounds(sym_size, offset) ==
    IF sym_size > 0 /\ offset >= sym_size
    THEN offset > LARGE_OFFSET_BOUND
    ELSE sym_size = 0 /\ offset > SMALL_OFFSET_BOUND

SizeRuleRejects(sym_size, offset) ==
    IF sym_size > 0 /\ offset >= sym_size
    THEN offset > SMALL_OFFSET_BOUND
    ELSE sym_size = 0 /\ offset > LARGE_OFFSET_BOUND

\* idx of lookup: bisect_right(...) - 1 (0-based; -1 when nothing is below).
SymbolTable_idx(tbl, addr) == bisect_right(tbl, addr) - 1

SymbolTable_lookup(tbl, addr) ==
    IF tbl = <<>> THEN None
    ELSE LET idx == SymbolTable_idx(tbl, addr)
         IN IF idx < 0 THEN None
            ELSE LET sym_addr == tbl[idx + 1][1]
                     sym_name == tbl[idx + 1][2]
                     sym_size == tbl[idx + 1][3]
                     offset == addr - sym_addr
                 IN IF offset < 0 THEN None
                    ELSE IF SizeRuleRejects(sym_size, offset) THEN None
                    ELSE Some(FormatName(sym_name, offset))

(***************************************************************************)
(* SectionMap: entries are (vaddr, size, name).                            *)
(***************************************************************************)
\* Python's order on (int, int, str) tuples.
SecLt(a, b) ==
    \/ a[1] < b[1]
    \/ a[1] = b[1] /\ a[2] < b[2]
    \/ a[1] = b[1] /\ a[2] = b[2] /\ StrLt(a[3], b[3])

SectionMap_finish(tbl) == SortSeq(tbl, SecLt)

SectionMap_idx(tbl, addr) == bisect_right(tbl, addr) - 1

SectionMap_lookup(tbl, addr) ==
    IF tbl = <<>> THEN None
    ELSE LET idx == SectionMap_idx(tbl, addr)
         IN IF idx < 0 THEN None
            ELSE LET sec_addr == tbl[idx + 1][1]
                     sec_size == tbl[idx + 1][2]
                     sec_name == tbl[idx + 1][3]
                     offset == addr - sec_addr
                 IN IF offset < 0 \/ offset >= sec_size THEN None
                    ELSE Some(FormatName(sec_name, offset))

(***************************************************************************)
(* Bounded inputs of the tables.                                           *)
(***************************************************************************)
MaxSyms == 2
MaxSections == 2

SymChoices ==
    {<<a, n, z>> : a \in {4096, 4224, 36864}, n \in {"_Z3isrv", "kmain"},
                   z \in {0, 256, 8192}}

LookupOffsets ==
    {0, 1, 80, 255, 256, 512, 4096, 4097, 8191, 8192, 8193, 65536, 65537}

SymLookupAddrs == {4095} \cup {a + o : a \in {4096, 36864}, o \in LookupOffsets}

SecChoices ==
    {<<a, z, n>> : a \in {8192, 9472, 12288}, z \in {1, 1280}, n \in {".data", ".text"}}

SecLookupAddrs == {a + o : a \in {8192, 9472, 12288}, o \in {-1, 0, 1, 1279, 1280}}

NoLookup == [addr |-> -1, idx |-> -1, ret |-> None]

(***************************************************************************)
(* SymbolTable operations.  _parse_elf_symtab adds every entry, then calls *)
(* finish() once; lookups happen on the finished table.                    *)
(***************************************************************************)
SymInit == syms = <<>> /\ sym_finished = FALSE /\ sym_lk = NoLookup

SymIdle == SymInit

SymAdd(e) ==
    /\ ~sym_finished /\ Len(syms) < MaxSyms
    /\ syms' = Append(syms, e)
    /\ UNCHANGED <<sym_finished, sym_lk>>
    /\ UNCHANGED symOthers

SymFinish(outcome) ==
    /\ ~sym_finished
    /\ syms' = SymbolTable_finish(syms, outcome)
    /\ sym_finished' = TRUE
    /\ UNCHANGED sym_lk
    /\ UNCHANGED symOthers

SymLookup(addr) ==
    /\ sym_finished
    /\ sym_lk' = [addr |-> addr,
                  idx |-> IF syms = <<>> THEN -1 ELSE SymbolTable_idx(syms, addr),
                  ret |-> SymbolTable_lookup(syms, addr)]
    /\ UNCHANGED <<syms, sym_finished>>
    /\ UNCHANGED symOthers

SymNext ==
    \/ \E e \in SymChoices : SymAdd(e)
    \/ \E o \in DemangleOutcomes : SymFinish(o)
    \/ \E a \in SymLookupAddrs : SymLookup(a)

(***************************************************************************)
(* SectionMap operations, in the order _parse_elf_sections uses them.      *)
(***************************************************************************)
SecInit == sections = <<>> /\ sec_finished = FALSE /\ sec_lk = NoLookup

SecIdle == SecInit

SecAdd(e) ==
    /\ ~sec_finished /\ Len(sections) < MaxSections
    /\ sections' = Append(sections, e)
    /\ UNCHANGED <<sec_finished, sec_lk>>
    /\ UNCHANGED secOthers

SecFinish ==
    /\ ~sec_finished
    /\ sections' = SectionMap_finish(sections)
    /\ sec_finished' = TRUE
    /\ UNCHANGED sec_lk
    /\ UNCHANGED secOthers

SecLookup(addr) ==
    /\ sec_finished
    /\ sec_lk' = [addr |-> addr,
                  idx |-> IF sections = <<>> THEN -1 ELSE SectionMap_idx(sections, addr),
                  ret |-> SectionMap_lookup(sections, addr)]
    /\ UNCHANGED <<sections, sec_finished>>
    /\ UNCHANGED secOthers

SecNext ==
    \/ \E e \in SecChoices : SecAdd(e)
    \/ SecFinish
    \/ \E a \in SecLookupAddrs : SecLookup(a)


(***************************************************************************)
(* resolve_addr: symbol tables first, in list order, then section maps.    *)
(* main() appends a table only when the parser returned one, and a parser  *)
(* never returns an empty or unfinished table, so the lists hold finished  *)
(* non-empty tables.  section_maps = None behaves as the empty list (both  *)
(* are falsy in `if section_maps:`).                                       *)
(***************************************************************************)
MaxTables == 2

BoundedSeqs(S, n) == UNION {[1..k -> S] : k \in 0..n}

ResolveTableChoices ==
    {SymbolTable_finish(<<<<8192, "kmain", 256>>>>, "ok"),
     SymbolTable_finish(<<<<12288, "_Z3isrv", 16>>, <<8192, "memcpy", 0>>>>, "ok")}

ResolveMapChoices ==
    {SectionMap_finish(<<<<8192, 1280, ".text">>>>),
     SectionMap_finish(<<<<24576, 256, ".text">>, <<8192, 8192, ".data">>>>)}

ResolveAddrs == {4096, 8193, 12289, 24577, 90000}

RsFresh ==
    /\ rs_addr = 0 /\ rs_pc = "idle" /\ rs_i = 0 /\ rs_ret = None /\ rs_log = <<>>

RsInit ==
    /\ rs_tables \in BoundedSeqs(ResolveTableChoices, MaxTables)
    /\ rs_maps \in BoundedSeqs(ResolveMapChoices, MaxTables)
    /\ RsFresh

RsIdle == rs_tables = <<>> /\ rs_maps = <<>> /\ RsFresh

ResolveStart(addr) ==
    /\ rs_pc = "idle"
    /\ rs_addr' = addr /\ rs_pc' = "syms" /\ rs_i' = 1
    /\ UNCHANGED <<rs_tables, rs_maps, rs_ret, rs_log>>
    /\ UNCHANGED rsOthers

\* Mutant: the first loop keeps going after a hit (the last match wins).
ResolveSymStep_LastWins ==
    /\ rs_pc = "syms" /\ rs_i <= Len(rs_tables)
    /\ LET r == SymbolTable_lookup(rs_tables[rs_i], rs_addr)
       IN /\ rs_log' = Append(rs_log, <<"sym", rs_i, r>>)
          /\ IF r # None /\ rs_i = Len(rs_tables)
             THEN rs_ret' = r /\ rs_pc' = "done" /\ rs_i' = rs_i
             ELSE rs_i' = rs_i + 1 /\ UNCHANGED <<rs_ret, rs_pc>>
    /\ UNCHANGED <<rs_tables, rs_maps, rs_addr>>
    /\ UNCHANGED rsOthers

\* One iteration of `for t in tables`.
ResolveSymStep ==
    /\ rs_pc = "syms" /\ rs_i <= Len(rs_tables)
    /\ LET r == SymbolTable_lookup(rs_tables[rs_i], rs_addr)
       IN /\ rs_log' = Append(rs_log, <<"sym", rs_i, r>>)
          /\ IF r # None
             THEN rs_ret' = r /\ rs_pc' = "done" /\ rs_i' = rs_i
             ELSE rs_i' = rs_i + 1 /\ UNCHANGED <<rs_ret, rs_pc>>
    /\ UNCHANGED <<rs_tables, rs_maps, rs_addr>>
    /\ UNCHANGED rsOthers

\* The first loop is exhausted: `if section_maps:`.
ResolveSymsExhausted ==
    /\ rs_pc = "syms" /\ rs_i > Len(rs_tables)
    /\ IF rs_maps # <<>>
       THEN rs_pc' = "secs" /\ rs_i' = 1 /\ UNCHANGED rs_ret
       ELSE rs_pc' = "done" /\ rs_ret' = None /\ UNCHANGED rs_i
    /\ UNCHANGED <<rs_tables, rs_maps, rs_addr, rs_log>>
    /\ UNCHANGED rsOthers

\* One iteration of `for m in section_maps`.
ResolveSecStep ==
    /\ rs_pc = "secs" /\ rs_i <= Len(rs_maps)
    /\ LET r == SectionMap_lookup(rs_maps[rs_i], rs_addr)
       IN /\ rs_log' = Append(rs_log, <<"sec", rs_i, r>>)
          /\ IF r # None
             THEN rs_ret' = r /\ rs_pc' = "done" /\ rs_i' = rs_i
             ELSE rs_i' = rs_i + 1 /\ UNCHANGED <<rs_ret, rs_pc>>
    /\ UNCHANGED <<rs_tables, rs_maps, rs_addr>>
    /\ UNCHANGED rsOthers

\* The second loop is exhausted: return None.
ResolveSecsExhausted ==
    /\ rs_pc = "secs" /\ rs_i > Len(rs_maps)
    /\ rs_pc' = "done" /\ rs_ret' = None
    /\ UNCHANGED <<rs_tables, rs_maps, rs_addr, rs_i, rs_log>>
    /\ UNCHANGED rsOthers

RsNext ==
    \/ \E a \in ResolveAddrs : ResolveStart(a)
    \/ ResolveSymStep
    \/ ResolveSymsExhausted
    \/ ResolveSecStep
    \/ ResolveSecsExhausted

(***************************************************************************)
(* parse_coredump.  Bytes are 0..255.  The header fields are unsigned 64-  *)
(* and 32-bit integers; the magic alone needs all 64 bits, so an unsigned  *)
(* integer is held as its 16-bit limbs, least significant first (4 limbs   *)
(* for "Q", 2 for "I"), and struct's "<" decoding builds each limb from    *)
(* two bytes.                                                              *)
(***************************************************************************)
COREDUMP_MAGIC == <<21327, 20291, 21828, 20557>>

\* The bytes parse_coredump consumes before the segment table: "<QII", "<7Q",
\* two frames of 7 and two register sets of 15 quadwords, "<8Q".
HEADER_BYTES == (8 + 4 + 4) + 7 * 8 + 2 * (7 * 8 + 15 * 8) + 8 * 8

\* struct.unpack_from raises struct.error unless offset + size <= len(buffer).
CanUnpack(buf, off, size) == off + size <= Len(buf)

U16At_BigEndian(buf, off) == 256 * buf[off + 1] + buf[off + 2]

\* Two bytes at 0-based offset off, little-endian.
U16At(buf, off) == buf[off + 1] + 256 * buf[off + 2]

\* "<I" and "<Q" at offset off.
U32At(buf, off) == <<U16At(buf, off), U16At(buf, off + 2)>>
U64At(buf, off) ==
    <<U16At(buf, off), U16At(buf, off + 2), U16At(buf, off + 4), U16At(buf, off + 6)>>

\* "<nQ" at offset off: the tuple of n values.
UnpackQ(buf, off, n) == [k \in 1..n |-> U64At(buf, off + 8 * (k - 1))]

\* The Python int of a decoded value, for use as a buffer offset.  Values of
\* 2^30 or more lie past the end of every buffer of the model and are all
\* represented by 2^30.
ToOffset(u) ==
    IF u[3] = 0 /\ u[4] = 0 /\ u[2] < 16384 THEN u[1] + 65536 * u[2] ELSE 1073741824

\* f"0x{x:016x}" of a 64-bit value.
Hex4(n) ==
    HexDigits[(n \div 4096) + 1] \o HexDigits[((n \div 256) % 16) + 1]
        \o HexDigits[((n \div 16) % 16) + 1] \o HexDigits[(n % 16) + 1]

u64(x) == "0x" \o Hex4(x[4]) \o Hex4(x[3]) \o Hex4(x[2]) \o Hex4(x[1])

\* InterruptFrame(*vals) and GPRegs(*vals): positional construction.
InterruptFrame(vals) ==
    [intNum |-> vals[1],
     errCode |-> vals[2],
     rip |-> vals[3],
     cs |-> vals[4],
     rflags |-> vals[5],
     rsp |-> vals[6],
     ss |-> vals[7]]

GPRegs(vals) ==
    [r15 |-> vals[1],
     r14 |-> vals[2],
     r13 |-> vals[3],
     r12 |-> vals[4],
     r11 |-> vals[5],
     r10 |-> vals[6],
     r9 |-> vals[7],
     r8 |-> vals[8],
     rbp |-> vals[9],
     rdi |-> vals[10],
     rsi |-> vals[11],
     rdx |-> vals[12],
     rcx |-> vals[13],
     rbx |-> vals[14],
     rax |-> vals[15]]

\* parse_interrupt_frame / parse_gpregs: <<record, next offset>>.
parse_interrupt_frame(buf, off) == <<InterruptFrame(UnpackQ(buf, off, 7)), off + 7 * 8>>
parse_gpregs(buf, off) == <<GPRegs(UnpackQ(buf, off, 15)), off + 15 * 8>>

\* One segment-table entry, "<QQQII" at soff.
UnpackSegment(buf, soff) ==
    CoreDumpSegment(U64At(buf, soff), U64At(buf, soff + 8), U64At(buf, soff + 16),
                    U32At(buf, soff + 24), U32At(buf, soff + 28))

\* The magic test of parse_coredump.
MagicOk(magic) == magic = COREDUMP_MAGIC

BadMagicError(magic) ==
    [type |-> "SystemExit",
     msg |-> "Bad magic: " \o u64(magic) \o " (expected " \o u64(COREDUMP_MAGIC) \o ")"]

StructError == [type |-> "struct.error", msg |-> "unpack_from requires a buffer"]

(***************************************************************************)
(* The synthetic encoder of the round-trip test: the header little-endian  *)
(* in the fixed field order, filler up to segmentTableOffset, then the 5   *)
(* segment entries, entry i written at segmentTableOffset + stride * i     *)
(* (a later entry overwrites what it overlaps).                            *)
(***************************************************************************)
U16Bytes(x) == <<x % 256, x \div 256>>
U32Bytes(u) == U16Bytes(u[1]) \o U16Bytes(u[2])
U64Bytes(u) == U16Bytes(u[1]) \o U16Bytes(u[2]) \o U16Bytes(u[3]) \o U16Bytes(u[4])

EncodeFrame(f) ==
    U64Bytes(f.intNum)
        \o U64Bytes(f.errCode)
        \o U64Bytes(f.rip)
        \o U64Bytes(f.cs)
        \o U64Bytes(f.rflags)
        \o U64Bytes(f.rsp)
        \o U64Bytes(f.ss)

EncodeRegs(g) ==
    U64Bytes(g.r15)
        \o U64Bytes(g.r14)
        \o U64Bytes(g.r13)
        \o U64Bytes(g.r12)
        \o U64Bytes(g.r11)
        \o U64Bytes(g.r10)
        \o U64Bytes(g.r9)
        \o U64Bytes(g.r8)
        \o U64Bytes(g.rbp)
        \o U64Bytes(g.rdi)
        \o U64Bytes(g.rsi)
        \o U64Bytes(g.rdx)
        \o U64Bytes(g.rcx)
        \o U64Bytes(g.rbx)
        \o U64Bytes(g.rax)

EncodeSegment(s) ==
    U64Bytes(s.vaddr) \o U64Bytes(s.size) \o U64Bytes(s.fileOffset)
        \o U32Bytes(s.type) \o U32Bytes(s.present)

EncodeHeader(h) ==
    U64Bytes(h.magic) \o U32Bytes(h.version) \o U32Bytes(h.headerSize)
        \o U64Bytes(h.timestamp)
        \o U64Bytes(h.pid)
        \o U64Bytes(h.cpu)
        \o U64Bytes(h.intNum)
        \o U64Bytes(h.errCode)
        \o U64Bytes(h.cr2)
        \o U64Bytes(h.cr3)
        \o EncodeFrame(h.trapFrame) \o EncodeRegs(h.trapRegs)
        \o EncodeFrame(h.savedFrame) \o EncodeRegs(h.savedRegs)
        \o U64Bytes(h.taskEntry)
        \o U64Bytes(h.taskPagemap)
        \o U64Bytes(h.elfHeaderAddr)
        \o U64Bytes(h.programHeaderAddr)
        \o U64Bytes(h.segmentCount)
        \o U64Bytes(h.segmentTableOffset)
        \o U64Bytes(h.elfSize)
        \o U64Bytes(h.elfOffset)

Encode(h, stride) ==
    LET hdr == EncodeHeader(h)
        tbl == ToOffset(h.segmentTableOffset)
        size == tbl + stride * (MAX_SEGMENTS - 1) + Len(EncodeSegment(h.segments[1]))
        \* the last entry written over 0-based offset o, if any
        Owner(o) == {i \in 1..MAX_SEGMENTS :
                        /\ tbl + stride * (i - 1) <= o
                        /\ o < tbl + stride * i \/ i = MAX_SEGMENTS}
    IN [p \in 1..size |->
          IF p <= Len(hdr) THEN hdr[p]
          ELSE IF Owner(p - 1) = {} THEN 170  \* filler between header and table
          ELSE LET i == CHOOSE i \in Owner(p - 1) : TRUE
               IN EncodeSegment(h.segments[i])[p - (tbl + stride * (i - 1))]]

(***************************************************************************)
(* Bounded inputs of the decoder: headers whose fields are all zero        *)
(* (seed 0), all at their maximum (seed 1) or pairwise different (other    *)
(* seeds), with several segmentCount values (above MAX_SEGMENTS included)  *)
(* and table offsets; encoded, then optionally cut short or given a wrong  *)
(* magic.                                                                  *)
(***************************************************************************)
MaxSeed == 2

Limb(k, j, l) ==
    IF k = 0 THEN 0 ELSE IF k = 1 THEN 65535 ELSE (k * 7919 + j * 251 + l * 4099) % 65536

Val64(k, j) == <<Limb(k, j, 1), Limb(k, j, 2), Limb(k, j, 3), Limb(k, j, 4)>>
Val32(k, j) == <<Limb(k, j, 1), Limb(k, j, 2)>>

MakeHeader(k, count, tableOff) ==
    [magic |-> COREDUMP_MAGIC,
     version |-> Val32(k, 1),
     headerSize |-> Val32(k, 2),
     timestamp |-> Val64(k, 3),
     pid |-> Val64(k, 4),
     cpu |-> Val64(k, 5),
     intNum |-> Val64(k, 6),
     errCode |-> Val64(k, 7),
     cr2 |-> Val64(k, 8),
     cr3 |-> Val64(k, 9),
     trapFrame |->
         [intNum |-> Val64(k, 10), errCode |-> Val64(k, 11),
          rip |-> Val64(k, 12), cs |-> Val64(k, 13),
          rflags |-> Val64(k, 14), rsp |-> Val64(k, 15),
          ss |-> Val64(k, 16)],
     trapRegs |->
         [r15 |-> Val64(k, 17), r14 |-> Val64(k, 18), r13 |-> Val64(k, 19),
          r12 |-> Val64(k, 20), r11 |-> Val64(k, 21), r10 |-> Val64(k, 22),
          r9 |-> Val64(k, 23), r8 |-> Val64(k, 24), rbp |-> Val64(k, 25),
          rdi |-> Val64(k, 26), rsi |-> Val64(k, 27), rdx |-> Val64(k, 28),
          rcx |-> Val64(k, 29), rbx |-> Val64(k, 30),
          rax |-> Val64(k, 31)],
     savedFrame |->
         [intNum |-> Val64(k, 32), errCode |-> Val64(k, 33),
          rip |-> Val64(k, 34), cs |-> Val64(k, 35),
          rflags |-> Val64(k, 36), rsp |-> Val64(k, 37),
          ss |-> Val64(k, 38)],
     savedRegs |->
         [r15 |-> Val64(k, 39), r14 |-> Val64(k, 40), r13 |-> Val64(k, 41),
          r12 |-> Val64(k, 42), r11 |-> Val64(k, 43), r10 |-> Val64(k, 44),
          r9 |-> Val64(k, 45), r8 |-> Val64(k, 46), rbp |-> Val64(k, 47),
          rdi |-> Val64(k, 48), rsi |-> Val64(k, 49), rdx |-> Val64(k, 50),
          rcx |-> Val64(k, 51), rbx |-> Val64(k, 52),
          rax |-> Val64(k, 53)],
     taskEntry |-> Val64(k, 54),
     taskPagemap |-> Val64(k, 55),
     elfHeaderAddr |-> Val64(k, 56),
     programHeaderAddr |-> Val64(k, 57),
     segmentCount |-> count,
     segmentTableOffset |-> <<tableOff, 0, 0, 0>>,
     elfSize |-> Val64(k, 58),
     elfOffset |-> Val64(k, 59),
     segments |->
         [i \in 1..MAX_SEGMENTS |->
            CoreDumpSegment(Val64(k, 59 + 5 * i + 1), Val64(k, 59 + 5 * i + 2),
                            Val64(k, 59 + 5 * i + 3), Val32(k, 59 + 5 * i + 4),
                            Val32(k, 59 + 5 * i + 5))]]

Seeds == 0..MaxSeed

SegmentCountValues == {<<0, 0, 0, 0>>, <<2, 0, 0, 0>>, <<9, 0, 0, 0>>, <<65535, 65535, 65535, 65535>>}

TableOffsets == {HEADER_BYTES, HEADER_BYTES + 12}

\* The stride the segment-size comment states (28) and the stride of the code.
Strides == {28, SEGMENT_SIZE}

\* Where the magic is damaged: nowhere, in its lowest byte, in its highest.
MagicDamage == {"none", "low", "high"}

\* The length the file is cut to; -1 leaves it whole.
Cuts == {-1, 0, 8, 12, 16, 72, 487, 488, 600}

ParseInputs ==
    [seed : Seeds, count : SegmentCountValues, tableOff : TableOffsets,
     stride : Strides, damage : MagicDamage, cut : Cuts]

InputHeader(in) == MakeHeader(in.seed, in.count, in.tableOff)

InputData(in) ==
    LET whole == Encode(InputHeader(in), in.stride)
        damaged == [p \in 1..Len(whole) |->
                      IF (in.damage = "low" /\ p = 1) \/ (in.damage = "high" /\ p = 8)
                      THEN (whole[p] + 1) % 256 ELSE whole[p]]
    IN IF in.cut < 0 THEN damaged ELSE SubSeq(damaged, 1, Min(in.cut, Len(damaged)))

(***************************************************************************)
(* parse_coredump, one action per unpack.  pd_fields holds the fields      *)
(* decoded so far, pd_segments the entries appended so far.                *)
(***************************************************************************)
PdFresh ==
    /\ pd_pc = "start" /\ pd_off = 0 /\ pd_fields = <<>> /\ pd_segments = <<>>
    /\ pd_ret = None /\ pd_err = None

PdInit ==
    /\ pd_in \in ParseInputs
    /\ data = InputData(pd_in)
    /\ PdFresh

PdIdle ==
    /\ pd_in = [seed |-> 0, count |-> <<0, 0, 0, 0>>, tableOff |-> HEADER_BYTES,
                stride |-> SEGMENT_SIZE, damage |-> "none", cut |-> 0]
    /\ data = <<>>
    /\ PdFresh

PdFail(err) ==
    /\ pd_err' = err /\ pd_pc' = "error"
    /\ UNCHANGED <<pd_in, data, pd_off, pd_fields, pd_segments, pd_ret>>

\* (magic, version, headerSize) = unpack_from("<QII", data, 0); off += 16.
ParseMagic ==
    /\ pd_pc = "start"
    /\ IF CanUnpack(data, pd_off, 16)
       THEN /\ pd_fields' = [magic |-> U64At(data, pd_off),
                             version |-> U32At(data, pd_off + 8),
                             headerSize |-> U32At(data, pd_off + 12)]
            /\ pd_off' = pd_off + 8 + 4 + 4
            /\ pd_pc' = "check"
            /\ UNCHANGED <<pd_in, data, pd_segments, pd_ret, pd_err>>
       ELSE PdFail(StructError)
    /\ UNCHANGED pdOthers

\* if magic != COREDUMP_MAGIC: raise SystemExit(...).
ParseCheckMagic ==
    /\ pd_pc = "check"
    /\ IF MagicOk(pd_fields.magic)
       THEN /\ pd_pc' = "scalars"
            /\ UNCHANGED <<pd_in, data, pd_off, pd_fields, pd_segments, pd_ret, pd_err>>
       ELSE PdFail(BadMagicError(pd_fields.magic))
    /\ UNCHANGED pdOthers

\* (timestamp, pid, cpu, intNum, errCode, cr2, cr3) = unpack_from("<7Q").
ParseScalars ==
    /\ pd_pc = "scalars"
    /\ IF CanUnpack(data, pd_off, 56)
       THEN /\ LET v == UnpackQ(data, pd_off, 7)
               IN pd_fields' = pd_fields @@
                    [timestamp |-> v[1], pid |-> v[2], cpu |-> v[3], intNum |-> v[4],
                     errCode |-> v[5], cr2 |-> v[6], cr3 |-> v[7]]
            /\ pd_off' = pd_off + 7 * 8
            /\ pd_pc' = "trapFrame"
            /\ UNCHANGED <<pd_in, data, pd_segments, pd_ret, pd_err>>
       ELSE PdFail(StructError)
    /\ UNCHANGED pdOthers

\* trapFrame, off = parse_interrupt_frame(data, off).
ParseTrapFrame ==
    /\ pd_pc = "trapFrame"
    /\ IF CanUnpack(data, pd_off, 56)
       THEN /\ pd_fields' = pd_fields @@ [trapFrame |-> parse_interrupt_frame(data, pd_off)[1]]
            /\ pd_off' = parse_interrupt_frame(data, pd_off)[2]
            /\ pd_pc' = "trapRegs"
            /\ UNCHANGED <<pd_in, data, pd_segments, pd_ret, pd_err>>
       ELSE PdFail(StructError)
    /\ UNCHANGED pdOthers

\* trapRegs, off = parse_gpregs(data, off).
ParseTrapRegs ==
    /\ pd_pc = "trapRegs"
    /\ IF CanUnpack(data, pd_off, 120)
       THEN /\ pd_fields' = pd_fields @@ [trapRegs |-> parse_gpregs(data, pd_off)[1]]
            /\ pd_off' = parse_gpregs(data, pd_off)[2]
            /\ pd_pc' = "savedFrame"
            /\ UNCHANGED <<pd_in, data, pd_segments, pd_ret, pd_err>>
       ELSE PdFail(StructError)
    /\ UNCHANGED pdOthers

\* savedFrame, off = parse_interrupt_frame(data, off).
ParseSavedFrame ==
    /\ pd_pc = "savedFrame"
    /\ IF CanUnpack(data, pd_off, 56)
       THEN /\ pd_fields' = pd_fields @@ [savedFrame |-> parse_interrupt_frame(data, pd_off)[1]]
            /\ pd_off' = parse_interrupt_frame(data, pd_off)[2]
            /\ pd_pc' = "savedRegs"
            /\ UNCHANGED <<pd_in, data, pd_segments, pd_ret, pd_err>>
       ELSE PdFail(StructError)
    /\ UNCHANGED pdOthers

\* savedRegs, off = parse_gpregs(data, off).
ParseSavedRegs ==
    /\ pd_pc = "savedRegs"
    /\ IF CanUnpack(data, pd_off, 120)
       THEN /\ pd_fields' = pd_fields @@ [savedRegs |-> parse_gpregs(data, pd_off)[1]]
            /\ pd_off' = parse_gpregs(data, pd_off)[2]
            /\ pd_pc' = "tail"
            /\ UNCHANGED <<pd_in, data, pd_segments, pd_ret, pd_err>>
       ELSE PdFail(StructError)
    /\ UNCHANGED pdOthers

\* The 8 trailing fields, unpack_from("<8Q").
ParseTail ==
    /\ pd_pc = "tail"
    /\ IF CanUnpack(data, pd_off, 64)
       THEN /\ LET v == UnpackQ(data, pd_off, 8)
               IN pd_fields' = pd_fields @@
                    [taskEntry |-> v[1], taskPagemap |-> v[2], elfHeaderAddr |-> v[3],
                     programHeaderAddr |-> v[4], segmentCount |-> v[5],
                     segmentTableOffset |-> v[6], elfSize |-> v[7], elfOffset |-> v[8]]
            /\ pd_off' = pd_off + 8 * 8
            /\ pd_pc' = "segments"
            /\ UNCHANGED <<pd_in, data, pd_segments, pd_ret, pd_err>>
       ELSE PdFail(StructError)
    /\ UNCHANGED pdOthers

\* One iteration of `for i in range(MAX_SEGMENTS)`; i is len(segments).
ParseSegment ==
    /\ pd_pc = "segments" /\ Len(pd_segments) < MAX_SEGMENTS
    /\ LET i == Len(pd_segments)
           soff == ToOffset(pd_fields.segmentTableOffset) + i * SEGMENT_SIZE
       IN IF CanUnpack(data, soff, 32)
          THEN /\ pd_segments' = Append(pd_segments, UnpackSegment(data, soff))
               /\ UNCHANGED <<pd_in, data, pd_off, pd_fields, pd_pc, pd_ret, pd_err>>
          ELSE PdFail(StructError)
    /\ UNCHANGED pdOthers

\* return CoreDump(..., segments=segments, raw=data).
ParseReturn ==
    /\ pd_pc = "segments" /\ Len(pd_segments) = MAX_SEGMENTS
    /\ pd_ret' = Some(pd_fields @@ [segments |-> pd_segments, raw |-> data])
    /\ pd_pc' = "done"
    /\ UNCHANGED <<pd_in, data, pd_off, pd_fields, pd_segments, pd_err>>
    /\ UNCHANGED pdOthers

PdNext ==
    \/ ParseMagic
    \/ ParseCheckMagic
    \/ ParseScalars
    \/ ParseTrapFrame
    \/ ParseTrapRegs
    \/ ParseSavedFrame
    \/ ParseSavedRegs
    \/ ParseTail
    \/ ParseSegment
    \/ ParseReturn

(***************************************************************************)
(* ELF64 parsing: _parse_elf_symtab and _parse_elf_sections.  Decoded      *)
(* fields are Python ints; the images of the model keep every field the    *)
(* parsers do arithmetic on below 2^30, and ToOffset represents anything   *)
(* larger by 2^30.                                                         *)
(***************************************************************************)
ELF_MAGIC == <<127, 69, 76, 70>>
SHT_SYMTAB == 2
SHT_DYNSYM == 11
SHF_ALLOC == 2
STT_FUNC == 2
STT_NOTYPE == 0

\* "<H", "<I", "<Q" as Python ints, and "<q" (signed).
UnpackH(buf, off) == U16At(buf, off)
UnpackI(buf, off) == ToOffset(U32At(buf, off) \o <<0, 0>>)
UnpackQInt(buf, off) == ToOffset(U64At(buf, off))
UnpackSignedQ(buf, off) ==
    LET u == U64At(buf, off)
    IN IF u[4] < 32768 THEN ToOffset(u)
       ELSE IF u[4] = 65535 /\ u[3] = 65535 /\ u[2] >= 49152
            THEN u[1] + 65536 * (u[2] - 65536)
            ELSE -1073741824

\* struct.unpack_from(fmt, buf, off) for any int off: a negative offset
\* counts from the end of the buffer.  TRUE when it raises struct.error.
UnpackFromRaises(buf, off, size) ==
    IF off < 0
    THEN off + Len(buf) < 0 \/ off + size > 0
    ELSE off + size > Len(buf)

\* The 0-based offset unpack_from reads at.
UnpackFromAt(buf, off) == IF off < 0 THEN off + Len(buf) ELSE off

\* flags & mask for a mask that is a power of two.
BitSet(flags, mask) == (flags \div mask) % 2 = 1

\* bytes.find(b"\x00", start): the 0-based index of the first NUL at or after
\* start, or -1.
FindNul(s, start) ==
    LET hits == {i \in 0..(Len(s) - 1) : i >= start /\ s[i + 1] = 0}
    IN IF hits = {} THEN -1 ELSE CHOOSE i \in hits : \A j \in hits : i <= j

\* The bytes of the names the images of the model hold.
NameBytes ==
    [n \in {".data", ".text", "_Z3isrv", "kmain", "memcpy"} |->
       CASE n = ".data" -> <<46, 100, 97, 116, 97>>
         [] n = ".text" -> <<46, 116, 101, 120, 116>>
         [] n = "_Z3isrv" -> <<95, 90, 51, 105, 115, 114, 118>>
         [] n = "kmain" -> <<107, 109, 97, 105, 110>>
         [] n = "memcpy" -> <<109, 101, 109, 99, 112, 121>>]

\* bytes.decode("utf-8", errors="replace"); a byte string that is none of the
\* names above decodes to a string the model writes "?".
Utf8Decode(b) ==
    IF b = <<>> THEN ""
    ELSE IF \E n \in DOMAIN NameBytes : NameBytes[n] = b
         THEN CHOOSE n \in DOMAIN NameBytes : NameBytes[n] = b
         ELSE "?"

\* The null-terminated name at name_off of a string table (_section_name and
\* the name read of _parse_elf_symtab).
NameAt(tab, name_off) ==
    LET found == FindNul(tab, name_off)
        end == IF found < 0 THEN Len(tab) ELSE found
    IN Utf8Decode(PySlice(tab, name_off, end))

\* The ELF header fields both parsers read.
ElfIdentOk(e) == ~(Len(e) < 64 \/ SubSeq(e, 1, 4) # ELF_MAGIC)
ei_class(e) == e[5]
e_shoff(e) == UnpackQInt(e, 40)
e_shentsize(e) == UnpackH(e, 58)
e_shnum(e) == UnpackH(e, 60)
e_shstrndx(e) == UnpackH(e, 62)

\* One section header, "<IIQQQQIIqq" at off.
UnpackShdr(e, off) ==
    [sh_name |-> UnpackI(e, off), sh_type |-> UnpackI(e, off + 4),
     sh_flags |-> UnpackQInt(e, off + 8), sh_addr |-> UnpackQInt(e, off + 16),
     sh_offset |-> UnpackQInt(e, off + 24), sh_size |-> UnpackQInt(e, off + 32),
     sh_link |-> UnpackI(e, off + 40), sh_info |-> UnpackI(e, off + 44),
     sh_addralign |-> UnpackSignedQ(e, off + 48),
     sh_entsize |-> UnpackSignedQ(e, off + 56)]

\* _read_shdr of _parse_elf_sections: None when the header is not in bounds.
read_shdr(e, i) ==
    LET off == e_shoff(e) + i * e_shentsize(e)
    IN IF off + 64 > Len(e) THEN None ELSE Some(UnpackShdr(e, off))

\* The dict _parse_elf_symtab keeps of a section header.
ShdrDict(h) ==
    [name_off |-> h.sh_name, type |-> h.sh_type, offset |-> h.sh_offset,
     size |-> h.sh_size, link |-> h.sh_link, entsize |-> h.sh_entsize]

\* One symbol entry, "<IBBHQQ" at the offset unpack_from reads at.
UnpackSym(e, off) ==
    [st_name |-> UnpackI(e, off), st_info |-> e[off + 5], st_other |-> e[off + 6],
     st_shndx |-> UnpackH(e, off + 6), st_value |-> UnpackQInt(e, off + 8),
     st_size |-> UnpackQInt(e, off + 16)]

\* The symbol section _parse_elf_symtab takes (1-based index into shdrs, 0
\* for none): the first of type SHT_SYMTAB, else the first of type SHT_DYNSYM.
FirstOfType(hs, stype) ==
    LET hits == {i \in 1..Len(hs) : hs[i].type = stype}
    IN IF hits = {} THEN 0 ELSE CHOOSE i \in hits : \A j \in hits : i <= j

FindSymtab_DynsymFirst(hs) ==
    IF FirstOfType(hs, SHT_DYNSYM) # 0 THEN FirstOfType(hs, SHT_DYNSYM)
    ELSE FirstOfType(hs, SHT_SYMTAB)

FindSymtab(hs) ==
    IF FirstOfType(hs, SHT_SYMTAB) # 0 THEN FirstOfType(hs, SHT_SYMTAB)
    ELSE FirstOfType(hs, SHT_DYNSYM)

\* `symtab_shdr["entsize"] or 24`.
EntSize(sh) == IF sh.entsize = 0 THEN 24 ELSE sh.entsize

\* The filters of the symbol loop: TRUE when the entry is added.
SymKept_AnyType(sym, name) == sym.st_value # 0 /\ name # ""

SymKept(sym, name) ==
    /\ (sym.st_info % 16) \in {STT_FUNC, STT_NOTYPE}
    /\ sym.st_value # 0
    /\ name # ""

\* The filters of the section loop: TRUE when the section is added.
SectionKept_NoNameTest(h, name) ==
    BitSet(h.sh_flags, SHF_ALLOC) /\ ~(h.sh_addr = 0 \/ h.sh_size = 0)

SectionKept(h, name) ==
    /\ BitSet(h.sh_flags, SHF_ALLOC)
    /\ ~(h.sh_addr = 0 \/ h.sh_size = 0)
    /\ name # ""

(***************************************************************************)
(* Bounded ELF images.  An image is the 64-byte ELF header, 4 section      *)
(* headers, one string table (used for section and symbol names) and two   *)
(* symbol areas; a descriptor says what each field holds, and the families *)
(* below vary the header, the loadable sections, the symbol entries and    *)
(* the symbol sections around one well-formed image.                       *)
(***************************************************************************)
IntLimbs(n) ==
    IF n >= 0 THEN <<n % 65536, n \div 65536, 0, 0>>
    ELSE <<n % 65536, (n \div 65536) % 65536, 65535, 65535>>

IntU16(n) == U16Bytes(n)
IntU32(n) == U32Bytes(<<n % 65536, n \div 65536>>)
IntU64(n) == U64Bytes(IntLimbs(n))

Zeros(n) == [i \in 1..n |-> 0]

\* "\0.text\0kmain\0_Z3isrv\0memcpy\0.data": names at 1, 7, 13, 21 and 28,
\* the last one ended by the end of the table.
StrTabBytes ==
    <<0>> \o NameBytes[".text"] \o <<0>> \o NameBytes["kmain"] \o <<0>>
        \o NameBytes["_Z3isrv"] \o <<0>> \o NameBytes["memcpy"] \o <<0>>
        \o NameBytes[".data"]

SHDR_AT == 8 * 8
STR_AT == 64 + 4 * 64
SYMA_AT == STR_AT + 40
SYMB_AT == SYMA_AT + 2 * 24
IMAGE_END == SYMB_AT + 24

TEXT_ADDR == 4096 * 1025

Shdr(name, type, flags, addr, offset, size, link, entsize) ==
    [name |-> name, type |-> type, flags |-> flags, addr |-> addr,
     offset |-> offset, size |-> size, link |-> link, entsize |-> entsize]

Sym(name, info, value, size) ==
    [name |-> name, info |-> info, value |-> value, size |-> size]

EncodeShdr(s) ==
    IntU32(s.name) \o IntU32(s.type) \o IntU64(s.flags) \o IntU64(s.addr)
        \o IntU64(s.offset) \o IntU64(s.size) \o IntU32(s.link) \o IntU32(0)
        \o IntU64(1) \o IntU64(s.entsize)

EncodeSym(y) ==
    IntU32(y.name) \o <<y.info, 0>> \o IntU16(1) \o IntU64(y.value) \o IntU64(y.size)

RECURSIVE Concat(_)
Concat(ss) == IF ss = <<>> THEN <<>> ELSE Head(ss) \o Concat(Tail(ss))

EncodeElf(d) ==
    LET ident == (IF d.magic THEN ELF_MAGIC ELSE <<127, 69, 76, 71>>)
                     \o <<d.class, d.data>> \o Zeros(34)
        hdr == ident \o IntU64(d.shoff) \o Zeros(10) \o IntU16(d.shentsize)
                   \o IntU16(d.shnum) \o IntU16(d.shstrndx)
        shs == Concat([i \in 1..Len(d.secs) |-> EncodeShdr(d.secs[i])])
        strs == StrTabBytes \o Zeros(SYMA_AT - STR_AT - Len(StrTabBytes))
        entries == Concat([i \in 1..Len(d.symsA) |-> EncodeSym(d.symsA[i])])
                    \o Concat([i \in 1..Len(d.symsB) |-> EncodeSym(d.symsB[i])])
        whole == hdr \o shs \o strs \o entries
    IN IF d.cut < 0 THEN whole ELSE SubSeq(whole, 1, Min(d.cut, Len(whole)))

\* The well-formed image: .text, .symtab (kmain, _Z3isrv), .dynsym (memcpy)
\* and the string table, which is also an allocated section named .data.
ElfBase ==
    [cut |-> -1, magic |-> TRUE, class |-> 2, data |-> 1,
     shoff |-> SHDR_AT, shentsize |-> 64, shnum |-> 4, shstrndx |-> 3,
     secs |-> <<Shdr(1, 1, 6, TEXT_ADDR, 0, 1280, 0, 0),
                Shdr(0, SHT_SYMTAB, 0, 0, SYMA_AT, 48, 3, 24),
                Shdr(0, SHT_DYNSYM, 0, 0, SYMB_AT, 24, 3, 24),
                Shdr(28, 3, 2, 8192, STR_AT, Len(StrTabBytes), 0, 0)>>,
     symsA |-> <<Sym(7, 18, TEXT_ADDR + 256, 64), Sym(13, 18, TEXT_ADDR + 16, 0)>>,
     symsB |-> <<Sym(21, 18, TEXT_ADDR + 512, 16)>>]

\* Header damage: one field (or the length) of the well-formed image changed.
ElfHeaderInputs ==
    {[ElfBase EXCEPT !.cut = c] : c \in {0, 40, 63, 64, 200, STR_AT, SYMA_AT + 30}}
    \cup {[ElfBase EXCEPT !.magic = FALSE]}
    \cup {[ElfBase EXCEPT !.class = 1]}
    \cup {[ElfBase EXCEPT !.data = 2]}
    \cup {[ElfBase EXCEPT !.shoff = o] : o \in {0, 128, 1000}}
    \cup {[ElfBase EXCEPT !.shnum = n] : n \in {0, 3, 5, 9}}
    \cup {[ElfBase EXCEPT !.shstrndx = x] : x \in {2, 4, 65535}}
    \cup {[ElfBase EXCEPT !.shentsize = z] : z \in {32, 128}}
    \cup {[ElfBase EXCEPT !.shnum = 6, !.shstrndx = 5]}

\* The first section: every combination of flags, address, size and name,
\* with the string-table section allocated or not.
ElfSectionInputs ==
    {[ElfBase EXCEPT !.secs[1] = Shdr(n, 1, f, a, 0, z, 0, 0),
                     !.secs[4].flags = g] :
        n \in {0, 1, 28, 200}, f \in {0, 2, 4, 6}, a \in {0, 4096, TEXT_ADDR},
        z \in {0, 1280}, g \in {0, 2}}

\* The symbol entries of .symtab.
ElfSymbolInputs ==
    {[ElfBase EXCEPT !.symsA = <<Sym(n, i, v, z), y>>] :
        n \in {0, 7, 200}, i \in {0, 1, 3, 16, 17, 18, 34}, v \in {0, TEXT_ADDR + 256},
        z \in {0, 64},
        y \in {Sym(13, 18, TEXT_ADDR + 16, 0), Sym(13, 18, 0, 8), Sym(0, 16, TEXT_ADDR, 0)}}

\* The two symbol sections: their types, and the link, entry size, size and
\* offset of the first.
ElfSymSectionInputs ==
    {[ElfBase EXCEPT !.secs[2].type = t1, !.secs[3].type = t2, !.secs[2].link = l] :
        t1 \in {1, SHT_SYMTAB, SHT_DYNSYM}, t2 \in {1, SHT_SYMTAB, SHT_DYNSYM},
        l \in {3, 4, 7}}
    \cup {[ElfBase EXCEPT !.secs[2].entsize = z, !.secs[2].size = n] :
            z \in {0, 16, 24, 32, -24}, n \in {0, 23, 24, 48, 72, 1000}}
    \cup {[ElfBase EXCEPT !.secs[2].offset = o] : o \in {IMAGE_END - 24, IMAGE_END, 5000}}
    \cup {[ElfBase EXCEPT !.secs[4].offset = o, !.secs[4].size = n] :
            o \in {STR_AT, 5000}, n \in {0, 13, Len(StrTabBytes), 1000}}

ElfInputs ==
    ElfHeaderInputs \cup ElfSectionInputs \cup ElfSymbolInputs \cup ElfSymSectionInputs

(***************************************************************************)
(* _parse_elf_symtab, one action per block and per loop iteration, then    *)
(* _parse_elf_sections on the same bytes (main loads the symbols of an ELF *)
(* and then its sections).  st_seen and es_seen record what each loop      *)
(* iteration read and whether it added an entry.                           *)
(***************************************************************************)
Running == [status |-> "running"]
Returned(v) == [status |-> "returned", v |-> v]
Raised(e) == [status |-> "raised", v |-> e]

NoShdr == ShdrDict(UnpackShdr(Zeros(64), 0))

StFresh ==
    /\ st_pc = "start" /\ shdrs = <<>> /\ symtab_shdr = NoShdr /\ strtab = <<>>
    /\ sym_off = 0 /\ table = <<>> /\ st_seen = <<>> /\ st_ret = Running

EsFresh ==
    /\ es_pc = "start" /\ shstrtab = <<>> /\ es_i = 0 /\ smap = <<>>
    /\ es_seen = <<>> /\ es_ret = Running

ElfInit ==
    /\ elf_in \in ElfInputs
    /\ elf = EncodeElf(elf_in)
    /\ StFresh /\ EsFresh

ElfIdle ==
    /\ elf_in = ElfBase /\ elf = <<>>
    /\ StFresh /\ EsFresh

\* return from _parse_elf_symtab
StReturn(v) ==
    /\ st_ret' = Returned(v) /\ st_pc' = "done"
    /\ UNCHANGED <<shdrs, symtab_shdr, strtab, sym_off, table, st_seen>>

\* Lines 270-280: the identification and header checks.
SymtabCheck ==
    /\ st_pc = "start"
    /\ IF ~ElfIdentOk(elf) THEN StReturn(None)
       ELSE IF ei_class(elf) # 2 THEN StReturn(None)
       ELSE IF e_shoff(elf) = 0 \/ e_shnum(elf) = 0 THEN StReturn(None)
       ELSE /\ st_pc' = "shdrs"
            /\ UNCHANGED <<shdrs, symtab_shdr, strtab, sym_off, table, st_seen, st_ret>>
    /\ UNCHANGED <<elf_in, elf, esVars>>
    /\ UNCHANGED elfOthers

\* One iteration of `for i in range(e_shnum)`; i is len(shdrs).
SymtabReadShdr ==
    /\ st_pc = "shdrs" /\ Len(shdrs) < e_shnum(elf)
    /\ LET off == e_shoff(elf) + Len(shdrs) * e_shentsize(elf)
       IN IF off + 64 > Len(elf) THEN StReturn(None)
          ELSE /\ shdrs' = Append(shdrs, ShdrDict(UnpackShdr(elf, off)))
               /\ UNCHANGED <<st_pc, symtab_shdr, strtab, sym_off, table, st_seen, st_ret>>
    /\ UNCHANGED <<elf_in, elf, esVars>>
    /\ UNCHANGED elfOthers

\* Lines 297-320: choose the symbol section and its string table.
SymtabFind ==
    /\ st_pc = "shdrs" /\ Len(shdrs) = e_shnum(elf)
    /\ LET k == FindSymtab(shdrs)
       IN IF k = 0 THEN StReturn(None)
          ELSE IF shdrs[k].link >= Len(shdrs) THEN StReturn(None)
          ELSE LET strtab_shdr == shdrs[shdrs[k].link + 1]
               IN /\ symtab_shdr' = shdrs[k]
                  /\ strtab' = PySlice(elf, strtab_shdr.offset,
                                       strtab_shdr.offset + strtab_shdr.size)
                  /\ sym_off' = shdrs[k].offset
                  /\ table' = <<>>
                  /\ st_pc' = "loop"
                  /\ UNCHANGED <<shdrs, st_seen, st_ret>>
    /\ UNCHANGED <<elf_in, elf, esVars>>
    /\ UNCHANGED elfOthers

sym_end == symtab_shdr.offset + symtab_shdr.size

\* One iteration of `while sym_off + entsize <= sym_end`.
SymtabEntry ==
    /\ st_pc = "loop"
    /\ sym_off + EntSize(symtab_shdr) <= sym_end
    /\ IF UnpackFromRaises(elf, sym_off, 24)
       THEN /\ st_ret' = Raised(StructError) /\ st_pc' = "raised"
            /\ UNCHANGED <<shdrs, symtab_shdr, strtab, sym_off, table, st_seen>>
       ELSE LET sym == UnpackSym(elf, UnpackFromAt(elf, sym_off))
                name == NameAt(strtab, sym.st_name)
                kept == SymKept(sym, name)
            IN /\ sym_off' = sym_off + EntSize(symtab_shdr)
               /\ table' = IF kept THEN Append(table, <<sym.st_value, name, sym.st_size>>)
                           ELSE table
               /\ st_seen' = Append(st_seen, [off |-> sym_off, sym |-> sym,
                                              name |-> name, added |-> kept])
               /\ UNCHANGED <<st_pc, shdrs, symtab_shdr, strtab, st_ret>>
    /\ UNCHANGED <<elf_in, elf, esVars>>
    /\ UNCHANGED elfOthers

\* A finish step that returns the table whatever its count.
SymtabFinish_ReturnsEmptyTable(outcome) ==
    /\ st_pc = "loop"
    /\ ~(sym_off + EntSize(symtab_shdr) <= sym_end)
    /\ table' = SymbolTable_finish(table, outcome)
    /\ st_ret' = Returned(Some(table'))
    /\ st_pc' = "done"
    /\ UNCHANGED <<shdrs, symtab_shdr, strtab, sym_off, st_seen>>
    /\ UNCHANGED <<elf_in, elf, esVars>>
    /\ UNCHANGED elfOthers

\* table.finish(); return table if table.count > 0 else None.
SymtabFinish(outcome) ==
    /\ st_pc = "loop"
    /\ ~(sym_off + EntSize(symtab_shdr) <= sym_end)
    /\ table' = SymbolTable_finish(table, outcome)
    /\ st_ret' = Returned(IF Len(table') > 0 THEN Some(table') ELSE None)
    /\ st_pc' = "done"
    /\ UNCHANGED <<shdrs, symtab_shdr, strtab, sym_off, st_seen>>
    /\ UNCHANGED <<elf_in, elf, esVars>>
    /\ UNCHANGED elfOthers

\* return from _parse_elf_sections
EsReturn(v) ==
    /\ es_ret' = Returned(v) /\ es_pc' = "done"
    /\ UNCHANGED <<shstrtab, es_i, smap, es_seen>>

\* The index test off by one: e_shstrndx = e_shnum passes.
SectionsCheck_IndexOffByOne ==
    /\ st_pc \in {"done", "raised"}
    /\ es_pc = "start"
    /\ IF ~ElfIdentOk(elf) THEN EsReturn(None)
       ELSE IF ei_class(elf) # 2 THEN EsReturn(None)
       ELSE IF e_shoff(elf) = 0 \/ e_shnum(elf) = 0 \/ e_shstrndx(elf) > e_shnum(elf)
            THEN EsReturn(None)
       ELSE LET shstr == read_shdr(elf, e_shstrndx(elf))
            IN IF shstr = None THEN EsReturn(None)
               ELSE /\ shstrtab' = PySlice(elf, shstr.v.sh_offset,
                                           shstr.v.sh_offset + shstr.v.sh_size)
                    /\ es_pc' = "loop"
                    /\ UNCHANGED <<es_i, smap, es_seen, es_ret>>
    /\ UNCHANGED <<elf_in, elf, stVars>>
    /\ UNCHANGED elfOthers

\* Lines 219-242: the checks and the section-name string table.
SectionsCheck ==
    /\ st_pc \in {"done", "raised"}
    /\ es_pc = "start"
    /\ IF ~ElfIdentOk(elf) THEN EsReturn(None)
       ELSE IF ei_class(elf) # 2 THEN EsReturn(None)
       ELSE IF e_shoff(elf) = 0 \/ e_shnum(elf) = 0 \/ e_shstrndx(elf) >= e_shnum(elf)
            THEN EsReturn(None)
       ELSE LET shstr == read_shdr(elf, e_shstrndx(elf))
            IN IF shstr = None THEN EsReturn(None)
               ELSE /\ shstrtab' = PySlice(elf, shstr.v.sh_offset,
                                           shstr.v.sh_offset + shstr.v.sh_size)
                    /\ es_pc' = "loop"
                    /\ UNCHANGED <<es_i, smap, es_seen, es_ret>>
    /\ UNCHANGED <<elf_in, elf, stVars>>
    /\ UNCHANGED elfOthers

\* One iteration of `for i in range(e_shnum)`.
SectionsHeader ==
    /\ es_pc = "loop" /\ es_i < e_shnum(elf)
    /\ LET hdr == read_shdr(elf, es_i)
       IN IF hdr = None
          THEN /\ es_seen' = Append(es_seen, [i |-> es_i, read |-> FALSE])
               /\ UNCHANGED smap
          ELSE LET name == NameAt(shstrtab, hdr.v.sh_name)
                   kept == SectionKept(hdr.v, name)
               IN /\ smap' = IF kept
                             THEN Append(smap, <<hdr.v.sh_addr, hdr.v.sh_size, name>>)
                             ELSE smap
                  /\ es_seen' = Append(es_seen, [i |-> es_i, read |-> TRUE, hdr |-> hdr.v,
                                                 name |-> name, added |-> kept])
    /\ es_i' = es_i + 1
    /\ UNCHANGED <<es_pc, shstrtab, es_ret>>
    /\ UNCHANGED <<elf_in, elf, stVars>>
    /\ UNCHANGED elfOthers

\* smap.finish(); return smap if smap.count > 0 else None.
SectionsFinish ==
    /\ es_pc = "loop" /\ es_i = e_shnum(elf)
    /\ smap' = SectionMap_finish(smap)
    /\ es_ret' = Returned(IF Len(smap') > 0 THEN Some(smap') ELSE None)
    /\ es_pc' = "done"
    /\ UNCHANGED <<shstrtab, es_i, es_seen>>
    /\ UNCHANGED <<elf_in, elf, stVars>>
    /\ UNCHANGED elfOthers

ElfNext ==
    \/ SymtabCheck
    \/ SymtabReadShdr
    \/ SymtabFind
    \/ SymtabEntry
    \/ \E o \in DemangleOutcomes : SymtabFinish(o)
    \/ SectionsCheck
    \/ SectionsHeader
    \/ SectionsFinish

(***************************************************************************)
(* Bounded inputs of the reconstructor.  A dump file of RawSmall bytes and *)
(* segment tables whose first two slots vary: adjacent, overlapping and    *)
(* disjoint segments, absent segments, segments whose bytes lie partly or  *)
(* wholly past the end of the file.  parse_coredump validates none of      *)
(* vaddr, size, fileOffset, present or segmentCount, so each is a dump the *)
(* program can hold.  The remaining slots are zero-filled.                 *)
(***************************************************************************)
MaxLength == 3

RawSmall == <<11, 22, 33, 44, 55, 66>>

ZeroSegment == CoreDumpSegment(0, 0, 0, 0, 0)

SmallSegments ==
    {CoreDumpSegment(v, 2, o, 1, p) : v \in {1, 2, 3}, o \in {0, 2, 5, 6}, p \in {0, 1}}
        \cup {ZeroSegment}

SegmentCounts == {0, 1, 2, 5}

SmallDumps ==
    {[segmentCount |-> n,
      segments |-> <<s0, s1, ZeroSegment, ZeroSegment, ZeroSegment>>,
      raw |-> RawSmall] : n \in SegmentCounts, s0 \in SmallSegments, s1 \in SmallSegments}

(***************************************************************************)
(* The synthetic dump of the boundary-rejection test: segmentCount = 2,    *)
(* one present stack segment [0x7000, 0x8000) and one absent fault         *)
(* segment.  The file holds the 648 header and table bytes and then the    *)
(* stack page.                                                             *)
(***************************************************************************)
BoundaryDump ==
    [segmentCount |-> 2,
     segments |-> <<CoreDumpSegment(28672, 4096, 648, 1, 1),
                    CoreDumpSegment(32768, 4096, 0, 2, 0),
                    ZeroSegment, ZeroSegment, ZeroSegment>>,
     raw |-> [i \in 1..4744 |-> (i * 7) % 256]]

Dumps == SmallDumps \cup {BoundaryDump}

Requests ==
    {<<a, n>> : a \in 0..4, n \in 0..MaxLength} \cup {<<32760, 16>>, <<32760, 8>>}

(***************************************************************************)
(* read_va_bytes, one action per step of the function.                     *)
(***************************************************************************)
RdFresh ==
    /\ va_start = 0 /\ length = 0 /\ va = 0 /\ remaining = 0
    /\ result = <<>> /\ rd_ret = None /\ rd_pc = "idle" /\ rd_iters = 0

RdInit == dump \in Dumps /\ RdFresh

\* The reader at rest, for the specifications of the other components.
RdIdle ==
    /\ dump = [segmentCount |-> 0,
               segments |-> [i \in 1..MAX_SEGMENTS |-> ZeroSegment],
               raw |-> <<>>]
    /\ RdFresh

\* Entry: result = bytearray(); va = va_start; remaining = length.
ReadStart(a, n) ==
    /\ rd_pc = "idle"
    /\ va_start' = a /\ length' = n
    /\ result' = <<>> /\ va' = a /\ remaining' = n
    /\ rd_ret' = None /\ rd_iters' = 0
    /\ rd_pc' = "loop"
    /\ UNCHANGED dump
    /\ UNCHANGED rdOthers

\* One loop body in which a covering segment is found.
ReadCopy ==
    /\ rd_pc = "loop" /\ remaining > 0
    /\ find_segment_for_va(dump, va) # 0
    /\ LET seg == dump.segments[find_segment_for_va(dump, va)]
           seg_offset == va - seg.vaddr
           avail == seg.size - seg_offset
           to_read == Min(avail, remaining)
           file_off == seg.fileOffset + seg_offset
       IN /\ result' = result \o PySlice(dump.raw, file_off, file_off + to_read)
          /\ va' = va + to_read
          /\ remaining' = remaining - to_read
    /\ rd_iters' = rd_iters + 1
    /\ UNCHANGED <<dump, va_start, length, rd_ret, rd_pc>>
    /\ UNCHANGED rdOthers

\* The loop body finds no covering segment: return None.
ReadFail ==
    /\ rd_pc = "loop" /\ remaining > 0
    /\ find_segment_for_va(dump, va) = 0
    /\ rd_ret' = None
    /\ rd_pc' = "done"
    /\ rd_iters' = rd_iters + 1
    /\ UNCHANGED <<dump, va_start, length, va, remaining, result>>
    /\ UNCHANGED rdOthers

\* The while test fails: return bytes(result).
ReadReturn ==
    /\ rd_pc = "loop" /\ ~(remaining > 0)
    /\ rd_ret' = Some(result)
    /\ rd_pc' = "done"
    /\ UNCHANGED <<dump, va_start, length, va, remaining, result, rd_iters>>
    /\ UNCHANGED rdOthers

RdNext ==
    \/ \E r \in Requests : ReadStart(r[1], r[2])
    \/ ReadCopy
    \/ ReadFail
    \/ ReadReturn

(***************************************************************************)
(* main, cmd_dump_segment and cmd_dump_range.  The dump is the one the     *)
(* reader works on; read_va_bytes runs as the reader's own actions between *)
(* CmdCallRead and the step that uses its result.  `out` is what has been  *)
(* printed so far, one record per block of output.                         *)
(***************************************************************************)
MAX_RANGE == 65536

\* va_start & ~7
AlignDown8(a) == a - (a % 8)

MnFresh ==
    /\ dr_va_start = 0 /\ dr_va_end = 0 /\ va_start_aligned = 0 /\ dr_length = 0
    /\ seg_index = 0 /\ out = <<>> /\ mn_ret = Running

MnIdle ==
    /\ mn_req = [range |-> None, segment |-> None]
    /\ mn_pc = "exit"
    /\ MnFresh

\* return n (from the command, and so from main)
MnReturn(n) ==
    /\ mn_ret' = Returned(n) /\ mn_pc' = "exit"

\* print(..., file=sys.stderr); return 1
MnReject(what) ==
    /\ out' = Append(out, [kind |-> "error", what |-> what])
    /\ MnReturn(1)

\* print_header(dump, ...)
MainPrintHeader ==
    /\ mn_pc = "header"
    /\ out' = Append(out, [kind |-> "header"])
    /\ mn_pc' = "segments"
    /\ UNCHANGED <<mn_req, dr_va_start, dr_va_end, va_start_aligned, dr_length, seg_index, mn_ret>>
    /\ UNCHANGED mnOthers

\* print_segments(dump): dump.segments[i] for every i in range(segmentCount).
MainPrintSegments ==
    /\ mn_pc = "segments"
    /\ IF dump.segmentCount > Len(dump.segments)
       THEN /\ out' = Append(out, [kind |-> "segments", rows |-> Len(dump.segments)])
            /\ mn_ret' = Raised("IndexError")
            /\ mn_pc' = "exit"
       ELSE /\ out' = Append(out, [kind |-> "segments", rows |-> dump.segmentCount])
            /\ mn_pc' = "elf"
            /\ UNCHANGED mn_ret
    /\ UNCHANGED <<mn_req, dr_va_start, dr_va_end, va_start_aligned, dr_length, seg_index>>
    /\ UNCHANGED mnOthers

\* print_elf(dump)
MainPrintElf ==
    /\ mn_pc = "elf"
    /\ out' = Append(out, [kind |-> "elf"])
    /\ mn_pc' = "dispatch"
    /\ UNCHANGED <<mn_req, dr_va_start, dr_va_end, va_start_aligned, dr_length, seg_index, mn_ret>>
    /\ UNCHANGED mnOthers

\* if args.dump_range is not None: return cmd_dump_range(dump, va_start, va_end)
MainDumpRange ==
    /\ mn_pc = "dispatch"
    /\ mn_req.range # None
    /\ dr_va_start' = mn_req.range.v[1]
    /\ dr_va_end' = mn_req.range.v[2]
    /\ mn_pc' = "cmd_range"
    /\ UNCHANGED <<mn_req, va_start_aligned, dr_length, seg_index, out, mn_ret>>
    /\ UNCHANGED mnOthers

\* if args.dump_segment is not None: return cmd_dump_segment(dump, index)
MainDumpSegment ==
    /\ mn_pc = "dispatch"
    /\ mn_req.range = None /\ mn_req.segment # None
    /\ seg_index' = mn_req.segment.v
    /\ mn_pc' = "cmd_segment"
    /\ UNCHANGED <<mn_req, dr_va_start, dr_va_end, va_start_aligned, dr_length, out, mn_ret>>
    /\ UNCHANGED mnOthers

\* return 0
MainNoRequest ==
    /\ mn_pc = "dispatch"
    /\ mn_req.range = None /\ mn_req.segment = None
    /\ MnReturn(0)
    /\ UNCHANGED <<mn_req, dr_va_start, dr_va_end, va_start_aligned, dr_length, seg_index, out>>
    /\ UNCHANGED mnOthers

\* cmd_dump_segment up to its call of cmd_dump_range.
CmdDumpSegment ==
    /\ mn_pc = "cmd_segment"
    /\ IF seg_index < 0 \/ seg_index >= dump.segmentCount
       THEN /\ MnReject("segment index out of range")
            /\ UNCHANGED <<dr_va_start, dr_va_end>>
       ELSE IF seg_index >= Len(dump.segments)
       THEN /\ mn_ret' = Raised("IndexError") /\ mn_pc' = "exit"
            /\ UNCHANGED <<dr_va_start, dr_va_end, out>>
       ELSE IF dump.segments[seg_index + 1].present = 0
       THEN /\ MnReject("segment not present")
            /\ UNCHANGED <<dr_va_start, dr_va_end>>
       ELSE /\ dr_va_start' = dump.segments[seg_index + 1].vaddr
            /\ dr_va_end' = vaddr_end(dump.segments[seg_index + 1])
            /\ mn_pc' = "cmd_range"
            /\ UNCHANGED <<out, mn_ret>>
    /\ UNCHANGED <<mn_req, va_start_aligned, dr_length, seg_index>>
    /\ UNCHANGED mnOthers

\* cmd_dump_range up to its call of read_va_bytes: align, then the two
\* range checks.
CmdDumpRange ==
    /\ mn_pc = "cmd_range"
    /\ va_start_aligned' = AlignDown8(dr_va_start)
    /\ dr_length' = dr_va_end - va_start_aligned'
    /\ IF dr_length' <= 0 THEN MnReject("end not greater than start")
       ELSE IF dr_length' > MAX_RANGE THEN MnReject("range too large")
       ELSE /\ mn_pc' = "reading"
            /\ UNCHANGED <<out, mn_ret>>
    /\ UNCHANGED <<mn_req, dr_va_start, dr_va_end, seg_index>>
    /\ UNCHANGED mnOthers

\* data = read_va_bytes(dump, va_start_aligned, length)
CmdCallRead ==
    /\ mn_pc = "reading"
    /\ ReadStart(va_start_aligned, dr_length)

\* if data is None: name the range and the segments, return 1.
CmdRangeUncovered ==
    /\ mn_pc = "reading" /\ rd_pc = "done" /\ rd_ret = None
    /\ MnReject("range not covered")
    /\ UNCHANGED <<mn_req, dr_va_start, dr_va_end, va_start_aligned, dr_length, seg_index>>
    /\ UNCHANGED mnOthers

\* The qword dump and the raw hex dump of data, return 0.
CmdRangePrint ==
    /\ mn_pc = "reading" /\ rd_pc = "done" /\ rd_ret # None
    /\ out' = Append(out, [kind |-> "dump", from |-> va_start_aligned, to |-> dr_va_end,
                           qwords |-> Len(rd_ret.v) \div 8, bytes |-> rd_ret.v])
    /\ MnReturn(0)
    /\ UNCHANGED <<mn_req, dr_va_start, dr_va_end, va_start_aligned, dr_length, seg_index>>
    /\ UNCHANGED mnOthers

(***************************************************************************)
(* Bounded inputs of the commands: a 24-byte file, a 16-byte segment at    *)
(* 16 and an 8-byte segment at 32 or, off the 8-byte grid, at 36 (present  *)
(* or not, the second one with its bytes inside or past the end of the     *)
(* file), a segmentCount of 0, 1, 2 or more than the MAX_SEGMENTS decoded   *)
(* entries.                                                                *)
(***************************************************************************)
MaxIndex == 5

RawCmd == [i \in 1..24 |-> (i * 5) % 256]

CmdDumps ==
    {[segmentCount |-> n,
      segments |-> <<CoreDumpSegment(16, 16, 0, 1, p0), CoreDumpSegment(v1, 8, o1, 2, p1),
                     ZeroSegment, ZeroSegment, ZeroSegment>>,
      raw |-> RawCmd] :
        n \in {0, 1, 2, MAX_SEGMENTS + 4}, p0 \in {0, 1}, p1 \in {0, 1}, o1 \in {16, 30},
        v1 \in {32, 36}}

RangeRequests ==
    {<<16, 32>>, <<16, 24>>, <<20, 32>>, <<23, 20>>, <<24, 24>>, <<24, 16>>, <<16, 40>>,
     <<0, 8>>, <<33, 40>>, <<16, 16 + MAX_RANGE>>, <<16, 17 + MAX_RANGE>>,
     <<17, 17 + MAX_RANGE>>}

SegmentRequests == (-1)..MaxIndex \cup {MAX_SEGMENTS + 4}

\* Direct calls of the two commands.
CmdInit ==
    /\ dump \in CmdDumps
    /\ RdFresh
    /\ \/ /\ \E r \in RangeRequests :
               /\ mn_req = [range |-> Some(r), segment |-> None]
               /\ dr_va_start = r[1] /\ dr_va_end = r[2]
          /\ seg_index = 0
          /\ mn_pc = "cmd_range"
       \/ /\ \E i \in SegmentRequests :
               /\ mn_req = [range |-> None, segment |-> Some(i)]
               /\ seg_index = i
          /\ dr_va_start = 0 /\ dr_va_end = 0
          /\ mn_pc = "cmd_segment"
    /\ va_start_aligned = 0 /\ dr_length = 0 /\ out = <<>> /\ mn_ret = Running

\* A run of main after parse_coredump accepted the file.
MainRequests ==
    {[range |-> None, segment |-> None]}
        \cup {[range |-> Some(r), segment |-> None] : r \in RangeRequests}
        \cup {[range |-> None, segment |-> Some(i)] : i \in SegmentRequests}
        \cup {[range |-> Some(<<16, 32>>), segment |-> Some(i)] : i \in {0, MaxIndex}}

MainInit ==
    /\ dump \in CmdDumps
    /\ RdFresh
    /\ mn_req \in MainRequests
    /\ mn_pc = "header"
    /\ MnFresh

CmdNext ==
    \/ CmdDumpSegment
    \/ CmdDumpRange
    \/ CmdCallRead
    \/ ReadCopy
    \/ ReadFail
    \/ ReadReturn
    \/ CmdRangeUncovered
    \/ CmdRangePrint

MainNext ==
    \/ MainPrintHeader
    \/ MainPrintSegments
    \/ MainPrintElf
    \/ MainDumpRange
    \/ MainDumpSegment
    \/ MainNoRequest
    \/ CmdDumpSegment
    \/ CmdDumpRange
    \/ CmdCallRead
    \/ ReadCopy
    \/ ReadFail
    \/ ReadReturn
    \/ CmdRangeUncovered
    \/ CmdRangePrint



(***************************************************************************)
(* annotate_qword.  The qword and the two RIPs are 64-bit values held as   *)
(* 16-bit limbs, least significant first (the stack-pointer test looks at  *)
(* bits 40 and up); va and the stack and frame pointers are compared and   *)
(* offset by 8 only, and are Python ints.                                  *)
(***************************************************************************)
\* resolve_addr as a function: the first symbol hit, else the first section
\* hit, else None.
FirstHit(rs) ==
    LET hits == {i \in 1..Len(rs) : rs[i] # None}
    IN IF hits = {} THEN None ELSE rs[CHOOSE i \in hits : \A j \in hits : i <= j]

resolve_addr(addr, tables, section_maps) ==
    LET r == FirstHit([i \in 1..Len(tables) |-> SymbolTable_lookup(tables[i], addr)])
    IN IF r # None THEN r
       ELSE FirstHit([i \in 1..Len(section_maps) |->
                        SectionMap_lookup(section_maps[i], addr)])

\* value >> 40
Shr40(v) == (v[3] \div 256) + 256 * v[4]

IsZero(v) == v = <<0, 0, 0, 0>>
\* 0 < value < 0x1000
IsSmall(v) == v[2] = 0 /\ v[3] = 0 /\ v[4] = 0 /\ 0 < v[1] /\ v[1] < 4096
\* 0x400000 <= value <= 0xFFFFFF
IsCodeAddr(v) == v[3] = 0 /\ v[4] = 0 /\ 64 <= v[2] /\ v[2] <= 255
\* (value >> 40) == 0x7ffe or (value >> 40) == 0x7fff
IsStackPtr(v) == Shr40(v) = 32766 \/ Shr40(v) = 32767

CodeNote(v, tables, section_maps) ==
    LET sym == resolve_addr(ToOffset(v), tables, section_maps)
    IN IF sym # None /\ sym.v # "" THEN "[code: " \o sym.v \o "]" ELSE "[code addr?]"

\* Lines 589-600: the RSP/RBP markers.
MarkerNotes(a, d) ==
    (IF a = d.trapFrame.rsp THEN <<"<-- trap RSP">> ELSE <<>>)
        \o (IF a = d.trapFrame.rsp - 8 THEN <<"<-- trap RSP-8">> ELSE <<>>)
        \o (IF a = d.trapFrame.rsp + 8 THEN <<"<-- trap RSP+8">> ELSE <<>>)
        \o (IF a = d.trapRegs.rbp THEN <<"<-- trap RBP">> ELSE <<>>)
        \o (IF a = d.savedFrame.rsp THEN <<"<-- saved RSP">> ELSE <<>>)
        \o (IF a = d.savedRegs.rbp THEN <<"<-- saved RBP">> ELSE <<>>)

\* Lines 603-615: the value heuristics, an if/elif chain.
ValueNotes(v, d, tables, section_maps) ==
    IF IsZero(v) THEN <<"[zero]">>
    ELSE IF IsSmall(v) THEN <<"[small: " \o ToString(v[1]) \o "]">>
    ELSE IF IsCodeAddr(v) THEN <<CodeNote(v, tables, section_maps)>>
    ELSE IF IsStackPtr(v) THEN <<"[stack ptr?]">>
    ELSE IF v = d.trapFrame.rip THEN <<"[== trap RIP]">>
    ELSE IF v = d.savedFrame.rip THEN <<"[== saved RIP]">>
    ELSE <<>>

\* "  ".join(notes)
RECURSIVE JoinNotes(_)
JoinNotes(ns) ==
    IF ns = <<>> THEN ""
    ELSE IF Len(ns) = 1 THEN ns[1]
    ELSE ns[1] \o "  " \o JoinNotes(Tail(ns))

(***************************************************************************)
(* Bounded inputs of annotate_qword.                                       *)
(***************************************************************************)
AqValues ==
    {<<0, 0, 0, 0>>, <<5, 0, 0, 0>>, <<4096, 64, 0, 0>>, <<4660, 64, 0, 0>>,
     <<60824, 65534, 254 * 256 + 255, 127>>, <<0, 0, 0, 128>>, <<0, 1, 0, 0>>}

AqRips == {<<0, 0, 0, 0>>, <<4096, 64, 0, 0>>, <<60824, 65534, 254 * 256 + 255, 127>>,
           <<0, 1, 0, 0>>}

AqVas == {4088, 4096, 4104, 4200}

AqTables == {<<>>, <<SymbolTable_finish(<<<<TEXT_ADDR - 16, "kmain", 256>>>>, "ok")>>}

AqDump(trap_rip, saved_rip) ==
    [trapFrame |-> [rsp |-> 4096, rip |-> trap_rip],
     trapRegs |-> [rbp |-> 4104],
     savedFrame |-> [rsp |-> 4096, rip |-> saved_rip],
     savedRegs |-> [rbp |-> 4200]]

AqFresh == aq_pc = "markers" /\ notes = <<>> /\ aq_ret = None

AqInit ==
    /\ aq_in \in [va : AqVas, value : AqValues, trap_rip : AqRips, saved_rip : AqRips,
                  sym_tables : AqTables]
    /\ AqFresh

AqIdle ==
    /\ aq_in = [va |-> 0, value |-> <<0, 0, 0, 0>>, trap_rip |-> <<0, 0, 0, 0>>,
                saved_rip |-> <<0, 0, 0, 0>>, sym_tables |-> <<>>]
    /\ AqFresh

AnnotateMarkers ==
    /\ aq_pc = "markers"
    /\ notes' = notes \o MarkerNotes(aq_in.va, AqDump(aq_in.trap_rip, aq_in.saved_rip))
    /\ aq_pc' = "value"
    /\ UNCHANGED <<aq_in, aq_ret>>
    /\ UNCHANGED aqOthers

AnnotateValue ==
    /\ aq_pc = "value"
    /\ notes' = notes \o ValueNotes(aq_in.value, AqDump(aq_in.trap_rip, aq_in.saved_rip),
                                    aq_in.sym_tables, <<>>)
    /\ aq_pc' = "join"
    /\ UNCHANGED <<aq_in, aq_ret>>
    /\ UNCHANGED aqOthers

AnnotateReturn ==
    /\ aq_pc = "join"
    /\ aq_ret' = Some(JoinNotes(notes))
    /\ aq_pc' = "done"
    /\ UNCHANGED <<aq_in, notes>>
    /\ UNCHANGED aqOthers

AqNext ==
    \/ AnnotateMarkers
    \/ AnnotateValue
    \/ AnnotateReturn



(***************************************************************************)
(* The specifications: one per component, the others at rest.              *)
(***************************************************************************)
(***************************************************************************)
(* A SymbolTable and a SectionMap side by side, as main holds them: each   *)
(* is filled, finished once and then only looked up.                       *)
(***************************************************************************)
(* cluster_setup.py: setup and teardown of the host-side topology.  The    *)
(* host is the set of network links and the set of files that exist; the   *)
(* attributes setup gives a link (MTU, master, state, address) do not       *)
(* decide whether it exists and are left out.  Every host command          *)
(* succeeds.  Zone ids are kept as the text an f-string makes of them.     *)
(***************************************************************************)
\* dict.get(key, default) on an optional field.
GetOr(opt, default) == IF opt = None THEN default ELSE opt.v

\* zones = [z for z in config["zones"] if z.get("id") != "GLOBAL"]
IsZone(z) == z.id # "GLOBAL"

ZonesOf(config) == SelectSeq(config.zones, IsZone)

\* find_global: the first zone whose id is "GLOBAL", else {}.
find_global(zones) ==
    LET hits == {i \in 1..Len(zones) : zones[i].id = "GLOBAL"}
    IN IF hits = {} THEN None
       ELSE Some(zones[CHOOSE i \in hits : \A j \in hits : i <= j])

zone_name(zone_cfg) ==
    IF zone_cfg.name # None THEN zone_cfg.name.v ELSE "Z" \o zone_cfg.id

bridge_name(zone_cfg) == "wos-" \o zone_name(zone_cfg) \o "-br"

tap_name(zone_cfg, node_id) == "wos-" \o zone_name(zone_cfg) \o "-N" \o ToString(node_id)

ivshmem_file(root_path, zone_cfg, node_a, node_b) ==
    LET a == Min(node_a, node_b)
        b == IF node_a >= node_b THEN node_a ELSE node_b
    IN root_path \o "/" \o "wos-" \o zone_name(zone_cfg) \o "-"
           \o ToString(a) \o "-" \o ToString(b)

\* itertools.combinations(range(n), 2)
Combinations2(n) == {<<a, b>> : a \in 0..(n - 1), b \in 0..(n - 1)} \cap
                        {p \in (0..(n - 1)) \X (0..(n - 1)) : p[1] < p[2]}

Normalised(p) == <<Min(p[1], p[2]), IF p[1] >= p[2] THEN p[1] ELSE p[2]>>

\* ivshmem_links: the pairs of the zone's own ivshmem section, as a set (the
\* callers only iterate over them and test for emptiness).
ivshmem_links(zone_cfg, num_nodes) ==
    IF zone_cfg.ivshmem = None \/ ~zone_cfg.ivshmem.v.enabled THEN {}
    ELSE LET topology == zone_cfg.ivshmem.v.topology
         IN IF topology = "full-mesh" THEN Combinations2(num_nodes)
            ELSE IF topology = "ring"
                 THEN {Normalised(<<i, (i + 1) % num_nodes>>) : i \in 0..(num_nodes - 1)}
            ELSE IF topology = "star" THEN {<<0, i>> : i \in 1..(num_nodes - 1)}
            ELSE IF topology = "pairs"
                 THEN {Normalised(zone_cfg.ivshmem.v.ivshmem_links[k]) :
                           k \in 1..Len(zone_cfg.ivshmem.v.ivshmem_links)}
            ELSE Combinations2(num_nodes)

\* resolve_config(global_cfg, zone_cfg).get("ivshmem", {}).get("root_path",
\* "/dev/shm"): the zone's key replaces the GLOBAL one within the section.
EffectiveRootPath(global_cfg, zone_cfg) ==
    IF zone_cfg.ivshmem # None /\ zone_cfg.ivshmem.v.root_path # None
    THEN zone_cfg.ivshmem.v.root_path.v
    ELSE IF global_cfg # None /\ global_cfg.v.ivshmem # None
              /\ global_cfg.v.ivshmem.v.root_path # None
    THEN global_cfg.v.ivshmem.v.root_path.v
    ELSE "/dev/shm"

\* zone_cfg.get("nodes", 2)
NumNodes(zone_cfg) == GetOr(zone_cfg.nodes, 2)

ZoneTaps(zone_cfg) == {tap_name(zone_cfg, n) : n \in 0..(NumNodes(zone_cfg) - 1)}

ZoneFiles(config, zone_cfg) ==
    {ivshmem_file(EffectiveRootPath(find_global(config.zones), zone_cfg), zone_cfg,
                  p[1], p[2]) : p \in ivshmem_links(zone_cfg, NumNodes(zone_cfg))}

\* The node ids setup hands to ensure_ssh_host_keys.
AllNodeIds(config) ==
    UNION {0..(NumNodes(ZonesOf(config)[k]) - 1) : k \in 1..Len(ZonesOf(config))}

(***************************************************************************)
(* Bounded cluster configs: one or two zones, with or without a GLOBAL     *)
(* entry; zones with their default name "Z<id>" or an explicit name (one   *)
(* that collides with the default name of zone 1 included), 2 (default) or *)
(* MaxNodes nodes, every ivshmem topology.                                 *)
(***************************************************************************)
MaxNodes == 3

IvshmemChoices ==
    {None}
        \cup {Some([enabled |-> TRUE, topology |-> t, ivshmem_links |-> <<>>,
                    root_path |-> None]) : t \in {"full-mesh", "ring", "star", "mesh"}}
        \cup {Some([enabled |-> TRUE, topology |-> "pairs",
                    ivshmem_links |-> <<<<1, 0>>, <<0, MaxNodes>>>>,
                    root_path |-> Some("/tmp")])}
        \cup {Some([enabled |-> FALSE, topology |-> "ring", ivshmem_links |-> <<>>,
                    root_path |-> None])}

ZoneChoices ==
    {[id |-> i, name |-> n, nodes |-> k, ivshmem |-> s] :
        i \in {"1", "2"}, n \in {None, Some("Z1")}, k \in {None, Some(1), Some(MaxNodes)},
        s \in IvshmemChoices}

SecondZoneChoices ==
    {z \in ZoneChoices : z.ivshmem \in {None} \cup
        {Some([enabled |-> TRUE, topology |-> "ring", ivshmem_links |-> <<>>,
               root_path |-> None])}}

GlobalZone ==
    [id |-> "GLOBAL", name |-> None, nodes |-> None,
     ivshmem |-> Some([enabled |-> TRUE, topology |-> "full-mesh", ivshmem_links |-> <<>>,
                       root_path |-> Some("/run/shm")])]

ClusterConfigs ==
    LET plain == {<<z>> : z \in ZoneChoices}
                    \cup {<<z1, z2>> : z1 \in ZoneChoices, z2 \in SecondZoneChoices}
    IN {[zones |-> zs] : zs \in plain} \cup {[zones |-> <<GlobalZone>> \o zs] : zs \in plain}

\* What the host holds before the first setup: nothing of the cluster, or a
\* bridge of that name left by someone else; the overlay directory of an
\* earlier launch may be there.
HostLinkChoices == {{"eth0"}, {"eth1", "wos-Z1-br"}}

ClFresh ==
    /\ cl_pc = "setup" /\ cl_zone = 1
    /\ created = {} /\ recreated = {} /\ ssh_keys = {}

ClInit ==
    /\ cl_config \in ClusterConfigs
    /\ host_links \in HostLinkChoices
    /\ host_files = {}
    /\ overlay_dir \in BOOLEAN
    /\ ClFresh

ClIdle ==
    /\ cl_config = [zones |-> <<>>]
    /\ host_links = {} /\ host_files = {} /\ overlay_dir = FALSE
    /\ ClFresh

\* The zone the running loop is at.
ClZone == ZonesOf(cl_config)[cl_zone]

\* One iteration of `for zone_cfg in zones` of setup: the bridge and the TAPs
\* that do not exist are added, the ivshmem files are always written.
SetupZone ==
    /\ cl_pc \in {"setup", "setup2"}
    /\ cl_zone <= Len(ZonesOf(cl_config))
    /\ LET links == {bridge_name(ClZone)} \cup ZoneTaps(ClZone)
           files == ZoneFiles(cl_config, ClZone)
           made == (links \ host_links) \cup files
       IN /\ host_links' = host_links \cup links
          /\ host_files' = host_files \cup files
          /\ IF cl_pc = "setup"
             THEN created' = created \cup made /\ UNCHANGED recreated
             ELSE recreated' = recreated \cup made /\ UNCHANGED created
    /\ cl_zone' = cl_zone + 1
    /\ UNCHANGED <<cl_config, overlay_dir, ssh_keys, cl_pc>>
    /\ UNCHANGED clOthers

\* The end of setup: ensure_ssh_host_keys(sorted(all_node_ids)).
SetupKeys ==
    /\ cl_pc \in {"setup", "setup2"}
    /\ cl_zone > Len(ZonesOf(cl_config))
    /\ ssh_keys' = ssh_keys \cup AllNodeIds(cl_config)
    /\ cl_pc' = IF cl_pc = "setup" THEN "teardown" ELSE "done"
    /\ cl_zone' = 1
    /\ UNCHANGED <<cl_config, host_links, host_files, overlay_dir, created, recreated>>
    /\ UNCHANGED clOthers

\* A teardown whose TAP loop stops one node short.
TeardownZone_SkipsLastTap ==
    /\ cl_pc = "teardown"
    /\ cl_zone <= Len(ZonesOf(cl_config))
    /\ host_links' = host_links \ ({bridge_name(ClZone)}
                        \cup {tap_name(ClZone, n) : n \in 0..(NumNodes(ClZone) - 2)})
    /\ host_files' = host_files \ ZoneFiles(cl_config, ClZone)
    /\ cl_zone' = cl_zone + 1
    /\ UNCHANGED <<cl_config, overlay_dir, ssh_keys, cl_pc, created, recreated>>
    /\ UNCHANGED clOthers

\* One iteration of `for zone_cfg in zones` of teardown: the TAPs, the
\* bridge and the ivshmem files that exist are deleted.
TeardownZone ==
    /\ cl_pc = "teardown"
    /\ cl_zone <= Len(ZonesOf(cl_config))
    /\ host_links' = host_links \ (ZoneTaps(ClZone) \cup {bridge_name(ClZone)})
    /\ host_files' = host_files \ ZoneFiles(cl_config, ClZone)
    /\ cl_zone' = cl_zone + 1
    /\ UNCHANGED <<cl_config, overlay_dir, ssh_keys, cl_pc, created, recreated>>
    /\ UNCHANGED clOthers

\* The end of teardown: the overlay directory is removed.
TeardownOverlay ==
    /\ cl_pc = "teardown"
    /\ cl_zone > Len(ZonesOf(cl_config))
    /\ overlay_dir' = FALSE
    /\ cl_pc' = "setup2"
    /\ cl_zone' = 1
    /\ UNCHANGED <<cl_config, host_links, host_files, ssh_keys, created, recreated>>
    /\ UNCHANGED clOthers

ClNext ==
    \/ SetupZone
    \/ SetupKeys
    \/ TeardownZone
    \/ TeardownOverlay

(***************************************************************************)
TblSymChoices ==
    {<<36864, "kmain", 256>>, <<4096, "_Z3isrv", 0>>, <<4096, "kmain", 256>>}

TblSecChoices == {<<12288, 1280, ".data">>, <<8192, 1280, ".text">>}

TblSymAddrs == {4095, 4096, 4176, 36864}

TblSecAddrs == {8192, 8193, 12288 + 1280}

TblNext ==
    \/ \E e \in TblSymChoices : SymAdd(e)
    \/ \E o \in DemangleOutcomes : SymFinish(o)
    \/ \E a \in TblSymAddrs : SymLookup(a)
    \/ \E e \in TblSecChoices : SecAdd(e)
    \/ SecFinish
    \/ \E a \in TblSecAddrs : SecLookup(a)

InitTables == RdIdle /\ SymInit /\ SecInit /\ RsIdle /\ PdIdle /\ ElfIdle /\ MnIdle /\ AqIdle /\ ClIdle

InitRead == RdInit /\ SymIdle /\ SecIdle /\ RsIdle /\ PdIdle /\ ElfIdle /\ MnIdle /\ AqIdle /\ ClIdle
InitSym == RdIdle /\ SymInit /\ SecIdle /\ RsIdle /\ PdIdle /\ ElfIdle /\ MnIdle /\ AqIdle /\ ClIdle
InitSec == RdIdle /\ SymIdle /\ SecInit /\ RsIdle /\ PdIdle /\ ElfIdle /\ MnIdle /\ AqIdle /\ ClIdle
InitResolve == RdIdle /\ SymIdle /\ SecIdle /\ RsInit /\ PdIdle /\ ElfIdle /\ MnIdle /\ AqIdle /\ ClIdle
InitParse == RdIdle /\ SymIdle /\ SecIdle /\ RsIdle /\ PdInit /\ ElfIdle /\ MnIdle /\ AqIdle /\ ClIdle
InitElf == RdIdle /\ SymIdle /\ SecIdle /\ RsIdle /\ PdIdle /\ ElfInit /\ MnIdle /\ AqIdle /\ ClIdle

InitAnnotate ==
    RdIdle /\ SymIdle /\ SecIdle /\ RsIdle /\ PdIdle /\ ElfIdle /\ MnIdle /\ AqInit /\ ClIdle
InitCluster ==
    RdIdle /\ SymIdle /\ SecIdle /\ RsIdle /\ PdIdle /\ ElfIdle /\ MnIdle /\ AqIdle /\ ClInit
InitCmd == CmdInit /\ SymIdle /\ SecIdle /\ RsIdle /\ PdIdle /\ ElfIdle /\ AqIdle /\ ClIdle
InitMain == MainInit /\ SymIdle /\ SecIdle /\ RsIdle /\ PdIdle /\ ElfIdle /\ AqIdle /\ ClIdle

SpecRead == InitRead /\ [][RdNext]_vars
SpecSym == InitSym /\ [][SymNext]_vars
SpecSec == InitSec /\ [][SecNext]_vars
SpecResolve == InitResolve /\ [][RsNext]_vars
SpecParse == InitParse /\ [][PdNext]_vars
SpecElf == InitElf /\ [][ElfNext]_vars
SpecCmd == InitCmd /\ [][CmdNext]_vars
SpecMain == InitMain /\ [][MainNext]_vars
SpecAnnotate == InitAnnotate /\ [][AqNext]_vars
SpecTables == InitTables /\ [][TblNext]_vars
SpecCluster == InitCluster /\ [][ClNext]_vars

(***************************************************************************)
(* Properties of read_va_bytes.                                            *)
(***************************************************************************)
\* The addresses of the running request, [va_start, va_start + length).
RequestRange == va_start .. (va_start + length - 1)

\* Address a is covered by a segment that is present and among the first
\* segmentCount table entries (stated from the table, not from the search).
Covering(d, a) ==
    {i \in 1..MAX_SEGMENTS :
        /\ i <= d.segmentCount
        /\ d.segments[i].present # 0
        /\ d.segments[i].vaddr <= a
        /\ a < d.segments[i].vaddr + d.segments[i].size}

\* The file byte backing address a in segment i, as a set: empty when the
\* offset fileOffset + (a - vaddr) lies past the end of the file.
FileByte(d, i, a) ==
    LET o == d.segments[i].fileOffset + (a - d.segments[i].vaddr)
    IN IF o < Len(d.raw) THEN {d.raw[o + 1]} ELSE {}

\* C1: for every segment table and every range with length > 0 whose
\* addresses are all covered by a present segment among the first
\* segmentCount entries, read_va_bytes returns exactly `length` bytes, each
\* the file byte at fileOffset + (address - vaddr) of a covering segment.
C1_CoveredReadIsExact ==
    (/\ rd_pc = "done" /\ length > 0
     /\ \A a \in RequestRange : Covering(dump, a) # {})
    => /\ rd_ret # None
       /\ Len(rd_ret.v) = length
       /\ \A k \in 1..length :
            \E i \in Covering(dump, va_start + k - 1) :
                rd_ret.v[k] \in FileByte(dump, i, va_start + k - 1)

\* C2: if any address of the requested range is not covered by a segment
\* that is present and among the first segmentCount entries, read_va_bytes
\* returns None, never a byte string; on the boundary dump
\* read_va_bytes(0x7FF8, 16) returns None.
C2_UncoveredReadIsNone ==
    /\ (rd_pc = "done" /\ \E a \in RequestRange : Covering(dump, a) = {})
            => rd_ret = None
    /\ (rd_pc = "done" /\ dump = BoundaryDump /\ va_start = 32760 /\ length = 16)
            => rd_ret = None

\* The boundary read has copied the 8 covered bytes and then returned None.
C2_Witness ==
    /\ rd_pc = "done" /\ dump = BoundaryDump /\ va_start = 32760 /\ length = 16
    /\ Len(result) = 8 /\ rd_ret = None

(***************************************************************************)
(* Properties of SymbolTable.lookup.                                       *)
(***************************************************************************)
SymLooked == sym_finished /\ sym_lk.addr >= 0

\* The entries whose address is the greatest one that is <= a.
NearestBelow(tbl, a) ==
    {i \in 1..Len(tbl) :
        /\ tbl[i][1] <= a
        /\ \A j \in 1..Len(tbl) : tbl[j][1] <= a => tbl[j][1] <= tbl[i][1]}

\* C3: on a finished table lookup(addr) resolves against the entry with the
\* greatest address <= addr: a result names such an entry at offset
\* addr - address, an entry whose address equals addr is returned by its
\* bare name, and lookup is None when no entry lies at or below addr.
C3_LookupNearestBelow ==
    SymLooked =>
        LET a == sym_lk.addr
            near == NearestBelow(syms, a)
        IN /\ near = {} => sym_lk.ret = None
           /\ sym_lk.ret # None =>
                \E i \in near :
                    sym_lk.ret = Some(FormatName(syms[i][2], a - syms[i][1]))
           /\ (\E i \in near : syms[i][1] = a) =>
                \E i \in near : sym_lk.ret = Some(syms[i][2])

\* C4: with the single symbol ("kmain", 0x1000, 0x100): lookup(0x1000) is
\* "kmain", lookup(0x1050) is "kmain+0x50", lookup(0x1200) is None.
C4_KmainExample ==
    (SymLooked /\ syms = <<<<4096, "kmain", 256>>>>) =>
        /\ sym_lk.addr = 4096 => sym_lk.ret = Some("kmain")
        /\ sym_lk.addr = 4176 => sym_lk.ret = Some("kmain+0x50")
        /\ sym_lk.addr = 4608 => sym_lk.ret = None

\* The entry the last lookup resolved against (its search selected), and
\* the offset of the queried address in it.
SymSelected == sym_lk.idx >= 0
SelSize == syms[sym_lk.idx + 1][3]
SelOffset == sym_lk.addr - syms[sym_lk.idx + 1][1]

SecLooked == sec_finished /\ sec_lk.addr >= 0

SecCovers(e, a) == e[1] <= a /\ a < e[1] + e[2]

NonOverlapping(tbl) ==
    \A i, j \in 1..Len(tbl) :
        i # j => (tbl[i][1] + tbl[i][2] <= tbl[j][1] \/ tbl[j][1] + tbl[j][2] <= tbl[i][1])

\* C6: on a finished map of non-overlapping sections, every address inside
\* a section resolves to that section: the bare name at its first address
\* and name+0x<offset> elsewhere.
C6_SectionContains ==
    (SecLooked /\ NonOverlapping(sections)) =>
        \A i \in 1..Len(sections) :
            SecCovers(sections[i], sec_lk.addr) =>
                sec_lk.ret = Some(FormatName(sections[i][3], sec_lk.addr - sections[i][1]))

\* C7: the upper bound is exclusive: for a section of size s that overlaps
\* no other, lookup(vaddr + s - 1) names it at offset s - 1 and
\* lookup(vaddr + s) is None unless another section starts there; for
\* ".text" at 0x2000 of size 0x500, lookup(0x24FF) is ".text+0x4ff" and
\* lookup(0x2500) is None.
C7_ExclusiveUpperBound ==
    /\ (SecLooked /\ NonOverlapping(sections)) =>
         \A i \in 1..Len(sections) :
            LET e == sections[i]
            IN /\ sec_lk.addr = e[1] + e[2] - 1 =>
                    sec_lk.ret = Some(FormatName(e[3], e[2] - 1))
               /\ (/\ sec_lk.addr = e[1] + e[2]
                   /\ \A j \in 1..Len(sections) : ~SecCovers(sections[j], sec_lk.addr))
                    => sec_lk.ret = None
    /\ (SecLooked /\ sections = <<<<8192, 1280, ".text">>>>) =>
         /\ sec_lk.addr = 9471 => sec_lk.ret = Some(".text+0x4ff")
         /\ sec_lk.addr = 9472 => sec_lk.ret = None

(***************************************************************************)
(* Properties of resolve_addr.                                             *)
(***************************************************************************)
SymHits == {i \in 1..Len(rs_tables) : SymbolTable_lookup(rs_tables[i], rs_addr) # None}
SecHits == {i \in 1..Len(rs_maps) : SectionMap_lookup(rs_maps[i], rs_addr) # None}
First(S) == CHOOSE i \in S : \A j \in S : i <= j

\* C8: resolve_addr returns the result of the first symbol table, in list
\* order, whose lookup is not None; a section map is consulted only after
\* every symbol table has been consulted and returned None, the first map
\* with a result wins, and the result is None when nothing matches.
C8_SymbolsBeforeSections ==
    /\ rs_pc = "done" =>
         rs_ret = IF SymHits # {}
                  THEN SymbolTable_lookup(rs_tables[First(SymHits)], rs_addr)
                  ELSE IF SecHits # {}
                  THEN SectionMap_lookup(rs_maps[First(SecHits)], rs_addr)
                  ELSE None
    /\ \A k \in 1..Len(rs_log) :
         rs_log[k][1] = "sec" =>
            \A i \in 1..Len(rs_tables) :
                \E j \in 1..(k - 1) : rs_log[j] = <<"sym", i, None>>

\* The second symbol table answered after the first returned None, at an
\* address a section map also covers.
C8_Witness ==
    /\ rs_pc = "done" /\ Len(rs_log) = 2
    /\ rs_log[1] = <<"sym", 1, None>>
    /\ rs_log[2][1] = "sym" /\ rs_ret = rs_log[2][3] /\ rs_ret # None
    /\ SecHits # {}


(***************************************************************************)
(* parse_coredump.                                                         *)
(***************************************************************************)
PdTerminal == pd_pc \in {"done", "error"}

\* The leading 8 bytes of the input exist and, little-endian, are not the magic.
LeadingMagicDiffers == Len(data) >= 8 /\ U64At(data, 0) # COREDUMP_MAGIC

\* Nothing after the "<QII" prefix was decoded and nothing was returned.
NothingDecoded ==
    /\ DOMAIN pd_fields \subseteq {"magic", "version", "headerSize"}
    /\ pd_segments = <<>>
    /\ pd_ret = None

\* C9: every input whose leading 8 bytes, little-endian, differ from
\* COREDUMP_MAGIC makes parse_coredump fail with the bad-magic error carrying
\* the found and the expected magic, return no CoreDump and decode no frame,
\* no trailing scalar and no segment entry.
C9_BadMagicFails ==
    LeadingMagicDiffers =>
        /\ NothingDecoded
        /\ PdTerminal =>
              /\ pd_pc = "error"
              /\ pd_err = BadMagicError(U64At(data, 0))

\* The file is the whole encoding of the header, magic intact.
WholeEncoding(stride) ==
    pd_in.stride = stride /\ pd_in.damage = "none" /\ pd_in.cut = -1

\* The CoreDump returned equals the encoded header in every field, and all
\* MAX_SEGMENTS entries were decoded.
RoundTripOk ==
    /\ pd_pc = "done"
    /\ pd_ret # None
    /\ LET h == InputHeader(pd_in)
       IN /\ DOMAIN pd_ret.v = DOMAIN h \cup {"raw"}
          /\ \A f \in DOMAIN h : pd_ret.v[f] = h[f]
          /\ Len(pd_ret.v.segments) = MAX_SEGMENTS
          /\ \A i \in 1..MAX_SEGMENTS : pd_ret.v.segments[i] = h.segments[i]

StDone == st_pc \in {"done", "raised"}
EsDone == es_pc \in {"done", "raised"}

\* The buffer is not a 64-bit little-endian ELF image.
NotElf64LE ==
    \/ Len(elf) < 64
    \/ SubSeq(elf, 1, 4) # ELF_MAGIC
    \/ elf[5] # 2
    \/ elf[6] # 1

\* C11: for every buffer that is not a 64-bit little-endian ELF image (too
\* short, wrong magic, class byte not 64-bit, data-encoding byte not
\* little-endian) both parsers return None and neither raises.
C11_NonElfReturnsNone ==
    NotElf64LE =>
        /\ StDone => st_ret = Returned(None)
        /\ EsDone => es_ret = Returned(None)

\* C12: for every ELF64 buffer, whatever its section headers declare, both
\* parsers finish by returning a table or None and neither raises.
C12_NeverRaises ==
    (ElfIdentOk(elf) /\ ei_class(elf) = 2) =>
        /\ st_ret.status # "raised"
        /\ es_ret.status # "raised"

(***************************************************************************)
(* SymbolTable.finish.                                                     *)
(***************************************************************************)
Perms(n) == {f \in [1..n -> 1..n] : \A i, j \in 1..n : f[i] = f[j] => i = j}

\* The step is a call of finish().
IsFinish == ~sym_finished /\ sym_finished'

\* Every entry keeps its address and size; its name is kept or demangled.
FinishKeepsEntries ==
    /\ Len(syms') = Len(syms)
    /\ \E f \in Perms(Len(syms)) : \A i \in 1..Len(syms) :
          /\ syms'[f[i]][1] = syms[i][1]
          /\ syms'[f[i]][3] = syms[i][3]
          /\ syms'[f[i]][2] \in {syms[i][2], CxxFilt(syms[i][2])}

\* Every entry is kept whole, name included.
FinishKeepsNames ==
    \E f \in Perms(Len(syms)) : \A i \in 1..Len(syms) : syms'[f[i]] = syms[i]

\* C13: finish() never changes the number of entries nor the (address,
\* size) of an entry, and when the demangler is missing, times out, fails or
\* answers with another number of lines every symbol keeps its name.
C13_FinishIsBestEffort ==
    [][/\ IsFinish => FinishKeepsEntries
       /\ \A o \in DemangleOutcomes \ {"ok"} : SymFinish(o) => FinishKeepsNames]_vars

\* A finished table of two entries in which a mangled name was kept.
C13_Witness ==
    /\ sym_finished /\ Len(syms) = 2
    /\ \E i \in 1..2 : syms[i][2] = "_Z3isrv"

(***************************************************************************)
(* The commands and main.                                                  *)
(***************************************************************************)
\* The command has returned n.
HasReturned(n) == mn_ret.status = "returned" /\ mn_ret.v = n

\* Some memory was printed.
MemoryPrinted == \E k \in 1..Len(out) : out[k].kind = "dump"

\* read_va_bytes was called.
ReadCalled == rd_pc # "idle"

\* The range of the cmd_dump_range call is non-positive or, from the aligned
\* start, larger than 64 KiB.
RangeRejectable ==
    \/ dr_va_end <= dr_va_start
    \/ dr_va_end - AlignDown8(dr_va_start) > MAX_RANGE

\* C14: cmd_dump_range aligns the start down to a multiple of 8, returns 1
\* without reading or printing memory when the range is non-positive
\* (va_end <= va_start) or larger than 64 KiB, and proceeds to the read for
\* every other request.
C14_RangeChecks ==
    (mn_req.range # None /\ mn_pc # "cmd_range") =>
        /\ va_start_aligned % 8 = 0
        /\ va_start_aligned <= dr_va_start /\ dr_va_start < va_start_aligned + 8
        /\ IF RangeRejectable
           THEN HasReturned(1) /\ ~ReadCalled /\ ~MemoryPrinted
           ELSE mn_pc = "reading" \/ ReadCalled

\* The index is negative or >= segmentCount.
IndexOutOfRange == seg_index < 0 \/ seg_index >= dump.segmentCount

\* The index is in range and its segment is not present in the dump: the
\* decoded entry has present = 0, or the table has no entry at that index.
IndexNotPresent ==
    /\ ~IndexOutOfRange
    /\ \/ seg_index >= Len(dump.segments)
       \/ dump.segments[seg_index + 1].present = 0

\* C15: cmd_dump_segment returns 1 with an error message, raising nothing
\* and dumping no memory, for every index that is negative or >=
\* segmentCount and for every in-range index whose segment is not present.
C15_SegmentIndexRejected ==
    (mn_req.segment # None /\ mn_pc # "cmd_segment"
        /\ (IndexOutOfRange \/ IndexNotPresent)) =>
        /\ HasReturned(1)
        /\ Len(out) = 1 /\ out[1].kind = "error"
        /\ ~ReadCalled

\* The range [a, b) is rejected as the claim lists: non-positive, oversized
\* (from the aligned start) or not wholly covered by present segments.
RangeIsRejected(a, b) ==
    \/ b <= a
    \/ b - AlignDown8(a) > MAX_RANGE
    \/ \E x \in AlignDown8(a)..(b - 1) : Covering(dump, x) = {}

\* The segment index is rejected: out of range, absent segment, or a
\* segment whose span is rejected as a range.
SegmentIsRejected(i) ==
    \/ i < 0 \/ i >= dump.segmentCount
    \/ i >= Len(dump.segments)
    \/ dump.segments[i + 1].present = 0
    \/ RangeIsRejected(dump.segments[i + 1].vaddr, vaddr_end(dump.segments[i + 1]))

\* The request main handles is rejected (--dump-range goes first).
RequestIsRejected ==
    IF mn_req.range # None THEN RangeIsRejected(mn_req.range.v[1], mn_req.range.v[2])
    ELSE mn_req.segment # None /\ SegmentIsRejected(mn_req.segment.v)

\* The three summaries were printed, in this order, before anything else.
SummariesFirst ==
    /\ Len(out) >= 3
    /\ out[1].kind = "header" /\ out[2].kind = "segments" /\ out[3].kind = "elf"

\* A request is being validated or executed, or was.
RequestTouched ==
    \/ mn_pc \in {"cmd_range", "cmd_segment", "reading"}
    \/ ReadCalled
    \/ \E k \in 1..Len(out) : out[k].kind \in {"error", "dump"}

\* C16: in every run of main on a dump with valid magic the header, the
\* segment table and the ELF summary are printed before any request is
\* validated or executed; a rejected request yields exit status 1, and a run
\* with no request or a successful request yields 0.
C16_SummariesThenStatus ==
    /\ RequestTouched => SummariesFirst
    /\ mn_pc = "exit" => IF RequestIsRejected THEN HasReturned(1) ELSE HasReturned(0)

(***************************************************************************)
(* annotate_qword.                                                         *)
(***************************************************************************)
AqDone == aq_pc = "done"

HasNote(n) == \E k \in 1..Len(notes) : notes[k] = n

\* C17: annotate_qword emits each heuristic note whenever that note's own
\* condition holds, whatever the other notes: a word equal to the trap RIP
\* (the saved RIP) always carries the trap-RIP (saved-RIP) note, also when it
\* is a code address or looks like a stack pointer.
C17_NotesIndependent ==
    AqDone =>
        /\ IsZero(aq_in.value) => HasNote("[zero]")
        /\ IsStackPtr(aq_in.value) => HasNote("[stack ptr?]")
        /\ aq_in.value = aq_in.trap_rip => HasNote("[== trap RIP]")
        /\ aq_in.value = aq_in.saved_rip => HasNote("[== saved RIP]")

(***************************************************************************)
(* _parse_elf_sections: which section headers reach the SectionMap.        *)
(***************************************************************************)
\* A header the loop read with SHF_ALLOC set, a non-zero address and a
\* non-zero size.
AllocNonZero(s) ==
    /\ s.read
    /\ BitSet(s.hdr.sh_flags, SHF_ALLOC)
    /\ s.hdr.sh_addr # 0
    /\ s.hdr.sh_size # 0

SectionEntryOf(s) == <<s.hdr.sh_addr, s.hdr.sh_size, s.name>>

MapEntries == {smap[k] : k \in 1..Len(smap)}

SeenWhere(P(_)) == {k \in 1..Len(es_seen) : P(es_seen[k])}

AllocNonZeroNamed(s) == AllocNonZero(s) /\ s.name # ""

MapIsExactly(P(_)) ==
    /\ MapEntries = {SectionEntryOf(es_seen[k]) : k \in SeenWhere(P)}
    /\ Len(smap) = Cardinality(SeenWhere(P))
    /\ es_pc = "done" =>
           /\ es_ret.status = "returned"
           /\ es_ret.v = IF SeenWhere(P) = {} THEN None ELSE Some(smap)

\* C18 as stated: the SectionMap holds exactly the sections read so far whose
\* SHF_ALLOC flag is set and whose address and size are non-zero, each under
\* its null-terminated string-table name.
C18_KeptIffAllocNonZero == MapIsExactly(AllocNonZero)

\* C18, amended: the SectionMap holds exactly the sections read so far whose
\* SHF_ALLOC flag is set, whose address and size are non-zero and whose
\* null-terminated string-table name is non-empty, each under that name; the
\* function returns the map, or None when it is empty.
C18_KeptIffAllocNonZeroNamed == MapIsExactly(AllocNonZeroNamed)

C18_Witness ==
    /\ es_pc = "done" /\ Len(smap) = 1
    /\ \E k \in 1..Len(es_seen) : AllocNonZero(es_seen[k]) /\ es_seen[k].name = ""
    /\ \E k \in 1..Len(es_seen) : es_seen[k].read /\ ~AllocNonZero(es_seen[k])

(***************************************************************************)
(* _parse_elf_symtab: which symbols reach the table.                       *)
(***************************************************************************)
\* The entry's type is function or no-type, its value is non-zero and its
\* name is non-empty.
SymQualifies(s) ==
    /\ (s.sym.st_info % 16 = 2 \/ s.sym.st_info % 16 = 0)
    /\ s.sym.st_value # 0
    /\ s.name # ""

ExpectedTable ==
    LET q == SelectSeq(st_seen, SymQualifies)
    IN [k \in 1..Len(q) |-> <<q[k].sym.st_value, q[k].name, q[k].sym.st_size>>]

\* C19: while the symbol loop runs the table is exactly the qualifying entries
\* read so far (type function or no-type, non-zero value, non-empty name),
\* zero-size entries included; finish() keeps their addresses and sizes; and
\* in no state does the table hold a zero address or an empty name.
C19_SymbolFilter ==
    /\ st_pc \in {"loop", "raised"} => table = ExpectedTable
    /\ st_pc = "done" =>
           /\ Len(table) = Len(ExpectedTable)
           /\ {<<table[k][1], table[k][3]>> : k \in 1..Len(table)}
                  = {<<ExpectedTable[k][1], ExpectedTable[k][3]>> :
                         k \in 1..Len(ExpectedTable)}
    /\ \A k \in 1..Len(table) : table[k][1] # 0 /\ table[k][2] # ""

C19_Witness ==
    /\ st_pc = "done" /\ Len(table) = 1
    /\ table[1][3] = 0
    /\ \E k \in 1..Len(st_seen) :
           /\ st_seen[k].sym.st_value = 0
           /\ st_seen[k].sym.st_info % 16 = 2
           /\ st_seen[k].name # ""

(***************************************************************************)
(* _parse_elf_symtab: the choice of the symbol section.                    *)
(***************************************************************************)
HasType(t) == \E i \in 1..Len(shdrs) : shdrs[i].type = t

IsFirstOfType(i, t) ==
    shdrs[i].type = t /\ \A j \in 1..(i - 1) : shdrs[j].type # t

Chosen(i) ==
    IF HasType(SHT_SYMTAB) THEN IsFirstOfType(i, SHT_SYMTAB)
    ELSE IsFirstOfType(i, SHT_DYNSYM)

\* Every section header was read and the choice has been made.
SymtabChosen ==
    /\ shdrs # <<>>
    /\ st_pc \notin {"start", "shdrs"}
    /\ Len(shdrs) = e_shnum(elf)

StReturnedNone == st_ret.status = "returned" /\ st_ret.v = None

\* C20: once all section headers are read, the symbol section is the first
\* SHT_SYMTAB section when one exists, wherever it stands, and the first
\* SHT_DYNSYM section otherwise; the names are the bytes of the section at
\* its link index; a link index outside the table, or no symbol section at
\* all, returns None.
C20_SymtabChoice ==
    SymtabChosen =>
        /\ (\A i \in 1..Len(shdrs) : ~Chosen(i)) => StReturnedNone
        /\ \A i \in 1..Len(shdrs) :
               Chosen(i) =>
                   IF shdrs[i].link >= Len(shdrs) THEN StReturnedNone
                   ELSE /\ symtab_shdr = shdrs[i]
                        /\ strtab = PySlice(elf, shdrs[shdrs[i].link + 1].offset,
                                            shdrs[shdrs[i].link + 1].offset
                                                + shdrs[shdrs[i].link + 1].size)

C20_Witness ==
    /\ SymtabChosen /\ st_pc = "done"
    /\ shdrs[2].type = SHT_DYNSYM /\ shdrs[3].type = SHT_SYMTAB
    /\ symtab_shdr = shdrs[3]
    /\ Len(table) = 1 /\ table[1][2] = "memcpy"

(***************************************************************************)
(* The ELF parsers report an empty table as None.                          *)
(***************************************************************************)
NoneOrNonEmpty(ret) ==
    ret.status = "returned" =>
        \/ ret.v = None
        \/ ret.v.ok /\ Len(ret.v.v) >= 1

\* C21: whenever _parse_elf_symtab or _parse_elf_sections returns, the result
\* is None or a table with at least one entry; a table left with no entry is
\* returned as None.
C21_NoEmptyTable ==
    /\ NoneOrNonEmpty(st_ret)
    /\ NoneOrNonEmpty(es_ret)
    /\ (st_pc = "done" /\ table = <<>>) => st_ret.v = None
    /\ (es_pc = "done" /\ smap = <<>>) => es_ret.v = None

\* Both loops ran over entries and kept none of them.
C21_Witness ==
    /\ st_pc = "done" /\ st_seen # <<>> /\ table = <<>>
    /\ es_pc = "done" /\ es_seen # <<>> /\ smap = <<>>

(***************************************************************************)
(* _parse_elf_sections and the section-header string-table index.          *)
(***************************************************************************)
\* The 64-byte ELF header is there and its e_shstrndx (bytes 62-63) is not
\* below its e_shnum (bytes 60-61).
StrIndexOutOfRange ==
    /\ Len(elf) >= 64
    /\ elf[63] + 256 * elf[64] >= elf[61] + 256 * elf[62]

\* C22: when e_shstrndx >= e_shnum, _parse_elf_sections returns None without
\* reading a section header, whatever the headers contain.
C22_BadStrIndexYieldsNone ==
    (StrIndexOutOfRange /\ es_pc # "start") =>
        /\ es_pc = "done"
        /\ es_ret.status = "returned" /\ es_ret.v = None
        /\ es_seen = <<>> /\ smap = <<>>

\* The index names the slot just past a section table whose sections would
\* otherwise be kept.
C22_Witness ==
    /\ StrIndexOutOfRange /\ es_pc = "done"
    /\ ElfIdentOk(elf) /\ ei_class(elf) = 2 /\ e_shoff(elf) # 0
    /\ e_shnum(elf) = 3 /\ e_shstrndx(elf) = 3
    /\ elf_in.secs[1].flags = 6

(***************************************************************************)
(* The finished tables are sorted and lookups leave them alone.            *)
(***************************************************************************)
AscendingByAddress(tbl) ==
    \A i, j \in 1..Len(tbl) : i < j => tbl[i][1] <= tbl[j][1]

TablesSorted ==
    /\ sym_finished => AscendingByAddress(syms)
    /\ sec_finished => AscendingByAddress(sections)

\* A step taken on a finished table keeps its entries, and a lookup of the
\* address looked up last returns what it returned then.
LookupsLeaveTables ==
    /\ sym_finished =>
           /\ sym_finished' /\ syms' = syms
           /\ (sym_lk.addr >= 0 /\ sym_lk'.addr = sym_lk.addr) => sym_lk'.ret = sym_lk.ret
    /\ sec_finished =>
           /\ sec_finished' /\ sections' = sections
           /\ (sec_lk.addr >= 0 /\ sec_lk'.addr = sec_lk.addr) => sec_lk'.ret = sec_lk.ret

\* C23: once finish() has run, a SymbolTable and a SectionMap hold their
\* entries in ascending address order; every later step (the lookups) leaves
\* the entries unchanged, and looking the same address up again returns the
\* same result.
C23_SortedAndImmutable == [][LookupsLeaveTables]_vars /\ []TablesSorted

\* Two-entry tables, both finished and both looked up with a hit.
C23_Witness ==
    /\ sym_finished /\ Len(syms) = 2 /\ syms[1][1] < syms[2][1]
    /\ sec_finished /\ Len(sections) = 2 /\ sections[1][1] < sections[2][1]
    /\ sym_lk.addr = 4176 /\ sym_lk.ret # None
    /\ sec_lk.addr = 8193 /\ sec_lk.ret # None

(***************************************************************************)
(* read_va_bytes over overlapping segments.                                *)
(***************************************************************************)
\* Every present segment among the first segmentCount has its bytes inside
\* the file.
AllInsideFile(d) ==
    \A i \in 1..MAX_SEGMENTS :
        (i <= d.segmentCount /\ d.segments[i].present # 0) =>
            d.segments[i].fileOffset + d.segments[i].size <= Len(d.raw)

LowestCovering(d, a) ==
    CHOOSE i \in Covering(d, a) : \A j \in Covering(d, a) : i <= j

\* Some address of the request is covered by two segments.
RequestOverlaps ==
    \E a \in RequestRange : Cardinality(Covering(dump, a)) >= 2

\* C24: a finished read of a fully covered range, over segments whose bytes
\* are inside the file, does not fail, and the byte it returns for each
\* address is the file byte of the covering segment with the lowest table
\* index.
C24_OverlapLowestIndex ==
    (/\ rd_pc = "done" /\ length > 0
     /\ AllInsideFile(dump)
     /\ \A a \in RequestRange : Covering(dump, a) # {})
    => /\ rd_ret # None
       /\ Len(rd_ret.v) = length
       /\ \A k \in 1..length :
            rd_ret.v[k] \in FileByte(dump, LowestCovering(dump, va_start + k - 1),
                                     va_start + k - 1)

(***************************************************************************)
(* cmd_dump_segment on a present segment.                                  *)
(***************************************************************************)
\* The requested index is one of the first segmentCount, its segment is
\* present, of 1 to 0x10000 bytes, and its bytes are inside the file.
SegmentDumpable ==
    /\ mn_req.segment # None
    /\ 0 <= seg_index /\ seg_index < dump.segmentCount
    /\ seg_index < Len(dump.segments)
    /\ LET seg == dump.segments[seg_index + 1]
       IN /\ seg.present # 0
          /\ 1 <= seg.size /\ seg.size <= MAX_RANGE
          /\ seg.fileOffset + seg.size <= Len(dump.raw)

\* The last block printed is the dump of [from, to) with n bytes.
DumpedSpan(from, to, n) ==
    /\ out # <<>>
    /\ out[Len(out)].kind = "dump"
    /\ out[Len(out)].from = from /\ out[Len(out)].to = to
    /\ Len(out[Len(out)].bytes) = n

\* C25: cmd_dump_segment(i) on a present segment of 1 to 0x10000 bytes whose
\* bytes are inside the file returns 0 and dumps exactly [vaddr, vaddr + size).
C25_SegmentDumped ==
    (mn_pc = "exit" /\ SegmentDumpable) =>
        /\ HasReturned(0)
        /\ DumpedSpan(dump.segments[seg_index + 1].vaddr,
                      vaddr_end(dump.segments[seg_index + 1]),
                      dump.segments[seg_index + 1].size)

(***************************************************************************)
(* Indexing of the decoded segment array.                                  *)
(***************************************************************************)
\* C26: whatever segmentCount the header declares, print_segments,
\* cmd_dump_segment, cmd_dump_range and find_segment_for_va stay inside the
\* MAX_SEGMENTS decoded entries: no run ends in IndexError.
C26_IndicesInBounds ==
    mn_pc = "exit" => (mn_ret.status = "returned" /\ mn_ret.v \in {0, 1})

(***************************************************************************)
(* Progress of the read_va_bytes loop.                                     *)
(***************************************************************************)
\* A loop iteration that did not return.
IterationContinues == rd_pc = "loop" /\ rd_pc' = "loop" /\ rd_iters' = rd_iters + 1

\* The iteration consumed at least one byte of the request.
RemainingDecreases == remaining' < remaining /\ va' > va

\* The iteration appended at least one byte to result.
CopiesAByte == Len(result') >= Len(result) + 1

IterationsBounded == (rd_pc # "idle" /\ length >= 0) => rd_iters <= length

\* C27: every iteration of the read_va_bytes loop that does not return None
\* copies at least one byte and decreases `remaining`, and the loop runs at
\* most `length` iterations.
C27_EveryIterationCopies ==
    /\ [][IterationContinues => (CopiesAByte /\ RemainingDecreases)]_vars
    /\ []IterationsBounded

\* C28: a byte string returned for a request with length > 0 has exactly
\* `length` bytes, whatever the segment table says about file offsets.
C28_ReturnedLengthExact ==
    (rd_pc = "done" /\ length > 0 /\ rd_ret # None) => Len(rd_ret.v) = length

(***************************************************************************)
(* Progress of the symbol-entry loop of _parse_elf_symtab.                 *)
(***************************************************************************)
\* One more symbol entry was read.
SymbolIteration == st_pc = "loop" /\ Len(st_seen') = Len(st_seen) + 1

\* No more iterations than section-size / entry-size.
SymbolIterationsBounded ==
    (st_pc \in {"loop", "raised"} \/ (st_pc = "done" /\ st_seen # <<>>)) =>
        Len(st_seen) * EntSize(symtab_shdr) <= symtab_shdr.size

\* C29: every iteration of the symbol loop moves the read offset strictly
\* forward, for every declared entry size (0 is replaced by 24; negative
\* sizes and sizes below 24 included), so the loop makes at most
\* section-size / entry-size iterations and never ends by raising.
C29_SymbolLoopProgress ==
    /\ [][SymbolIteration => sym_off' > sym_off]_vars
    /\ []SymbolIterationsBounded
    /\ [](symtab_shdr.entsize < 0 => st_pc # "raised")

(***************************************************************************)
(* setup, teardown, setup again on one cluster config.                     *)
(***************************************************************************)
HostResources == host_links \cup host_files

\* teardown has run over every zone.
TornDown ==
    \/ cl_pc = "teardown" /\ cl_zone > Len(ZonesOf(cl_config))
    \/ cl_pc = "setup2" /\ cl_zone = 1

\* C30: after setup(config) and then teardown(config) none of the bridges,
\* TAP devices and ivshmem files the setup created exists; the SSH host keys
\* of the config's nodes are still there; and a second setup(config) creates
\* every one of those resources again.
C30_TeardownUndoesSetup ==
    /\ TornDown => created \cap HostResources = {}
    /\ cl_pc \in {"teardown", "setup2", "done"} => AllNodeIds(cl_config) \subseteq ssh_keys
    /\ cl_pc = "done" => (created \subseteq recreated /\ created \subseteq HostResources)

\* Two zones under a GLOBAL entry went through setup, teardown and setup;
\* the first setup had created links and at least one ivshmem file.
C30_Witness ==
    /\ cl_pc = "done"
    /\ Len(cl_config.zones) = 3 /\ Len(ZonesOf(cl_config)) = 2
    /\ created \cap host_files # {}
    /\ Cardinality(created) >= 6
    /\ ssh_keys = 0..(MaxNodes - 1)

====
